---- MODULE Spec2Model ----
(***************************************************************************)
(* Model of the traffic-signal control stack of trafficManagement:         *)
(*   - WebsterOptimizer.optimize      (backend/src/webster_optimizer.py)   *)
(*   - SpillbackDetector.analyze      (backend/src/spillback_detector.py)  *)
(*   - StabilizedAdaptiveController   (simulation/sumo_controller.py)      *)
(*   - GeometricDatabase              (backend/src/geometric_database.py)  *)
(*   - DataCollector                  (backend/src/data_collector.py)      *)
(* Floating-point quantities of the source (flow ratios, cycle length      *)
(* before rounding, occupancy) are modelled as exact non-negative          *)
(* rationals [n |-> numerator, d |-> denominator] in lowest terms.         *)
(***************************************************************************)
EXTENDS Integers, Sequences, FiniteSets, TLC

VARIABLES
    wIn,        \* arguments of the WebsterOptimizer.optimize call
    wOut,       \* what that call produced (SignalTiming or ValueError)
    history,    \* SpillbackDetector.history: (junction, direction) -> samples
    dClock,     \* number of analyze calls made so far, read as time.time()
    dIn,        \* arguments of the last SpillbackDetector.analyze call
    dOut,       \* what that call produced (JunctionStatus or ValueError)
    qOut,       \* the last get_queue_trend / should_block_upstream answer
    recorded,   \* every sample analyze ever appended, per approach, in order
    geoIn,      \* the two configuration files GeometricDatabase is built from
    geoOut,     \* what the construction produced (database or error)
    junction_config,     \* ids of the junctions of junction_config["junctions"], in order
    flow_history,        \* _flow_history: junction -> (approach -> smoothed flow)
    current_greens,      \* _current_greens: junction -> (phase_idx -> green_s)
    stable_timings,      \* _stable_timings: junction -> snapshot, << >> when absent
    performance_history, \* _performance_history: recent delays
    failure_count,       \* _failure_count: consecutive degradations
    metrics,             \* self.metrics: the counters and total_vehicles, total_waiting_time
    phase_duration,      \* SUMO: last duration set per junction, 0 when none
    cycles,              \* number of _run_optimization_cycle calls so far
    last,                \* what the environment answered in the last cycle
    batch_queue,  \* DataCollector.batch_queue: the records waiting for a flush
    lock,         \* DataCollector.lock: the thread holding it, "free" when none
    running,      \* DataCollector._running
    pc,           \* where each thread stands in the code of DataCollector
    records,      \* per thread: the data it is adding / the list it copied to store
    db,           \* the rows traffic_store has committed, in order
    produced,     \* number of records collect_vision_data has built so far
    failures      \* number of store_batch calls that raised so far

websterVars == <<wIn, wOut>>

detectorVars == <<history, dClock, dIn, dOut, qOut, recorded>>

geoVars == <<geoIn, geoOut>>

collectorVars == <<batch_queue, lock, running, pc, records, db, produced, failures>>

controllerVars ==
    <<junction_config, flow_history, current_greens, stable_timings,
      performance_history, failure_count, metrics, phase_duration, cycles, last>>

vars ==
    <<wIn, wOut, history, dClock, dIn, dOut, qOut, recorded, geoIn, geoOut,
      junction_config, flow_history, current_greens, stable_timings,
      performance_history, failure_count, metrics, phase_duration, cycles, last,
      batch_queue, lock, running, pc, records, db, produced, failures>>

(***************************************************************************)
(* Bounds of the model                                                     *)
(***************************************************************************)
MaxPhases == 2

\* number of analyze calls explored
MaxAnalyze == 2

\* number of analyze calls explored when the queue trend is read
TrendCalls == 4

\* number of analyze calls in a run that fills the queue history
HistoryCalls == 13

\* number of analyze calls before the means of the trend are compared
MeanCalls == 6

\* number of analyze calls explored with inflow maps of every kind
InflowCalls == 1

\* number of analyze calls explored next to an optimize call
LookupCalls == 2

\* optimization cycles explored with one junction and all failure points
GreensCycles == 3

\* optimization cycles explored with two junctions
LoopCycles == 2

\* optimization cycles explored past a reversion
DelayCycles == 5

\* optimization cycles explored with an unchanging flow measurement
SmoothCycles == 3

\* optimization cycles explored with rising delays
RevertCycles == 4

\* optimization cycles explored with changing flow measurements
OrderCycles == 4

\* optimization cycles explored with two junctions and rising delays
SharedCycles == 4

\* optimization cycles explored between the steps that collect metrics
MetricsCycles == 4

\* records collect_vision_data(batch=True) is called with
MaxRecords == 3

\* store_batch calls that raise
MaxFailures == 1

\* optimization cycles in the specification of the stable snapshot
SnapshotCycles == 4

(***************************************************************************)
(* Rational arithmetic                                                     *)
(***************************************************************************)
RECURSIVE GCD(_, _)
GCD(a, b) == IF b = 0 THEN a ELSE GCD(b, a % b)

Rat(n, d) == LET g == GCD(n, d) IN [n |-> n \div g, d |-> d \div g]

RatInt(i) == [n |-> i, d |-> 1]

RatLt(a, b) == a.n * b.d < b.n * a.d

RatLeq(a, b) == a.n * b.d <= b.n * a.d

RatAdd(a, b) == Rat(a.n * b.d + b.n * a.d, a.d * b.d)

RatMul(a, b) == Rat(a.n * b.n, a.d * b.d)

\* Python max(a, b): b only when it is strictly greater
RatMax(a, b) == IF RatLt(a, b) THEN b ELSE a

\* Python min(a, b): b only when it is strictly smaller
RatMin(a, b) == IF RatLt(b, a) THEN b ELSE a

\* Python 3 round() to an integer: round half to even
RoundHalfEven(r) ==
    LET q   == r.n \div r.d
        rem == r.n % r.d
    IN  IF 2 * rem < r.d THEN q
        ELSE IF 2 * rem > r.d THEN q + 1
        ELSE IF q % 2 = 0 THEN q ELSE q + 1

\* Python round(x, 3), kept as an integer number of thousandths
Round3(r) == RoundHalfEven(Rat(r.n * 1000, r.d))

IntMax(a, b) == IF a >= b THEN a ELSE b

IntMin(a, b) == IF a <= b THEN a ELSE b

(***************************************************************************)
(* Geometric database: the data the optimizer reads                        *)
(***************************************************************************)
BASE_SATURATION_FLOW == 1900

Directions == {"north", "east", "west"}

\* one loaded junction; "west" is not one of its approaches
JunctionApproaches ==
    [J001 |-> [north |-> [lanes |-> 1, storage_length_m |-> 140, saturation_flow |-> 1800],
               east  |-> [lanes |-> 2, storage_length_m |-> 140, saturation_flow |-> 3600]]]

KnownJunctions == DOMAIN JunctionApproaches

JunctionIds == KnownJunctions \cup {"J999"}

AVG_VEHICLE_LENGTH_M == 5

AVG_GAP_M == 2

DEFAULT_STORAGE_CAPACITY == 20

\* get_storage_capacity on the junctions of a database:
\* N = int((L_road * N_lanes) / (L_vehicle + L_gap)), at least 1
StorageCapacity(junctions, jid, dir) ==
    IF jid \notin DOMAIN junctions \/ dir \notin DOMAIN junctions[jid]
    THEN DEFAULT_STORAGE_CAPACITY
    ELSE LET a == junctions[jid][dir]
         IN  IntMax((a.storage_length_m * a.lanes) \div (AVG_VEHICLE_LENGTH_M + AVG_GAP_M), 1)

get_storage_capacity(jid, dir) == StorageCapacity(JunctionApproaches, jid, dir)

get_approach_saturation_flow(jid, dir) ==
    IF jid \in KnownJunctions /\ dir \in DOMAIN JunctionApproaches[jid]
    THEN JunctionApproaches[jid][dir].saturation_flow
    ELSE BASE_SATURATION_FLOW

(***************************************************************************)
(* Geometric database: construction from the two configuration files.      *)
(* Lane widths are in centimetres, heavy_vehicle_pct and the factors fw     *)
(* and fT in hundredths; fHV and saturation_flow are rationals.             *)
(***************************************************************************)
\* variant: the breakpoints belong to the narrower class
lane_width_factor_Exclusive(width_cm) ==
    IF width_cm > 365 THEN 100
    ELSE IF width_cm > 335 THEN 96
    ELSE IF width_cm > 305 THEN 91
    ELSE IF width_cm > 275 THEN 86
    ELSE 81

\* _lane_width_factor: HCM Exhibit 19-13
lane_width_factor(width_cm) ==
    IF width_cm >= 365 THEN 100
    ELSE IF width_cm >= 335 THEN 96
    ELSE IF width_cm >= 305 THEN 91
    ELSE IF width_cm >= 275 THEN 86
    ELSE 81

\* _heavy_vehicle_factor: 1 / (1 + PHV * (ET - 1)) with ET = 2.5
heavy_vehicle_factor(heavy_pct) == Rat(200, 200 + 3 * heavy_pct)

\* _turn_radius_factor
turn_radius_factor(radius_m) ==
    IF radius_m >= 15 THEN 95
    ELSE IF radius_m >= 12 THEN 92
    ELSE IF radius_m >= 10 THEN 90
    ELSE IF radius_m >= 8 THEN 87
    ELSE IF radius_m >= 6 THEN 85
    ELSE 80

\* dict.get(key, default) on a configuration dictionary
ContextGet(context, key, default) ==
    IF key \in DOMAIN context THEN context[key] ELSE default

\* the context used when the context file cannot be read
DefaultContext == [base_saturation_flow |-> BASE_SATURATION_FLOW]

\* the configuration files: missing, not JSON, or parsed to their content
MissingFile == [state |-> "missing", content |-> << >>]

InvalidFile == [state |-> "invalid", content |-> << >>]

ParsedFile(content) == [state |-> "ok", content |-> content]

\* variant: a context file that cannot be read aborts the construction
load_context_Strict(file) ==
    IF file.state = "missing" THEN [error |-> "FileNotFoundError", context |-> << >>]
    ELSE IF file.state = "invalid" THEN [error |-> "ValueError", context |-> << >>]
    ELSE [error |-> "none", context |-> file.content]

\* _load_context: FileNotFoundError and JSONDecodeError fall back to the default
load_context(file) ==
    IF file.state = "missing" THEN [error |-> "none", context |-> DefaultContext]
    ELSE IF file.state = "invalid" THEN [error |-> "none", context |-> DefaultContext]
    ELSE [error |-> "none", context |-> file.content]

\* _calculate_factors: s = base * lanes * fw * fHV * fT
calculate_factors(context, approach_data) ==
    LET fw == lane_width_factor(approach_data.width_cm)
        fHV == heavy_vehicle_factor(approach_data.heavy_vehicle_pct)
        fT == turn_radius_factor(approach_data.turn_radius_m)
        base == ContextGet(context, "base_saturation_flow", BASE_SATURATION_FLOW)
    IN  [lanes |-> approach_data.lanes,
         width_cm |-> approach_data.width_cm,
         turn_radius_m |-> approach_data.turn_radius_m,
         storage_length_m |-> approach_data.storage_length_m,
         heavy_vehicle_pct |-> approach_data.heavy_vehicle_pct,
         fw |-> fw, fHV |-> fHV, fT |-> fT,
         saturation_flow |->
             RatMul(RatMul(RatMul(Rat(base * approach_data.lanes, 1), Rat(fw, 100)), fHV),
                    Rat(fT, 100))]

\* _load_junctions: the junction file is required
load_junctions(file, context) ==
    IF file.state = "missing" THEN [error |-> "FileNotFoundError", junctions |-> << >>]
    ELSE IF file.state = "invalid" THEN [error |-> "ValueError", junctions |-> << >>]
    ELSE [error |-> "none",
          junctions |-> [j \in DOMAIN file.content |->
                           [d \in DOMAIN file.content[j] |->
                              calculate_factors(context, file.content[j][d])]]]

NoDatabase == [kind |-> "none", context |-> << >>, junctions |-> << >>]

\* GeometricDatabase.__init__: the context first, then the junctions
GeometricDatabase(junction_file, context_file) ==
    LET ctx == load_context(context_file)
        loaded == load_junctions(junction_file, ctx.context)
    IN  IF ctx.error # "none" THEN [NoDatabase EXCEPT !.kind = ctx.error]
        ELSE IF loaded.error # "none" THEN [NoDatabase EXCEPT !.kind = loaded.error]
        ELSE [kind |-> "db", context |-> ctx.context, junctions |-> loaded.junctions]

\* SpillbackDetector.__init__ reads its thresholds from the context, in percent
warning_threshold(context) == ContextGet(context, "warning_occupancy_threshold", 70)

critical_threshold(context) == ContextGet(context, "critical_occupancy_threshold", 85)

(***************************************************************************)
(* Inputs of the construction                                              *)
(***************************************************************************)
LaneWidths == {250, 274, 275, 304, 305, 334, 335, 364, 365, 400}

NorthApproaches ==
    { [lanes |-> l, width_cm |-> w, turn_radius_m |-> r, storage_length_m |-> sl,
       heavy_vehicle_pct |-> h] :
        l \in {0, 1, 2}, w \in LaneWidths, r \in {5, 12}, sl \in {3, 140}, h \in {0, 25} }

EastApproaches ==
    { [lanes |-> 1, width_cm |-> w, turn_radius_m |-> 15, storage_length_m |-> 140,
       heavy_vehicle_pct |-> 0] : w \in LaneWidths }

JunctionFiles ==
    {MissingFile, InvalidFile, ParsedFile(<< >>)}
    \cup { ParsedFile([J001 |-> [north |-> n, east |-> e]]) :
               n \in NorthApproaches, e \in EastApproaches }

ContextFiles ==
    {MissingFile, InvalidFile, ParsedFile(<< >>),
     ParsedFile([base_saturation_flow |-> 1800, warning_occupancy_threshold |-> 60])}

NoFiles == [junction_file |-> MissingFile, context_file |-> MissingFile]

IdleGeo == geoIn = NoFiles /\ geoOut = NoDatabase

GInit ==
    /\ geoIn \in [junction_file : JunctionFiles, context_file : ContextFiles]
    /\ geoOut = NoDatabase

Construct ==
    /\ geoOut.kind = "none"
    /\ geoOut' = GeometricDatabase(geoIn.junction_file, geoIn.context_file)
    /\ UNCHANGED geoIn

(***************************************************************************)
(* WebsterOptimizer                                                        *)
(***************************************************************************)
MIN_CYCLE == 30
MAX_CYCLE == 120
YELLOW_TIME == 3
MIN_RED_TIME == 5
LOST_TIME_PER_PHASE == 4

\* Y >= 0.90
OversatNum == 90
\* the cap 0.95 that replaces Y >= 1.0
CapNum == 95

\* y = max(q_i / s_i) over the approaches of the phase, starting from 0.0
calculate_phase_flow_ratio(jid, phase, live_flows) ==
    LET ratios == { Rat(live_flows[d], get_approach_saturation_flow(jid, d)) :
                      d \in { x \in phase.approaches :
                                get_approach_saturation_flow(jid, x) > 0 } }
        all == ratios \cup {RatInt(0)}
    IN  CHOOSE r \in all : \A s \in all : RatLeq(s, r)

default_phase_config(jid) ==
    << [name |-> "NS",
        approaches |-> DOMAIN JunctionApproaches[jid] \cap {"north", "south"},
        min_green_s |-> 15, max_green_s |-> 60],
       [name |-> "EW",
        approaches |-> DOMAIN JunctionApproaches[jid] \cap {"east", "west"},
        min_green_s |-> 15, max_green_s |-> 60] >>

RECURSIVE RatSum(_, _)
RatSum(seq, i) == IF i = 0 THEN RatInt(0) ELSE RatAdd(RatSum(seq, i - 1), seq[i])

\* variant: the flag needs Y strictly above 0.90
IsOversaturated_Strict(rawY) == RatLt(Rat(OversatNum, 100), rawY)

\* is_oversaturated = Y >= 0.90
IsOversaturated(rawY) == RatLeq(Rat(OversatNum, 100), rawY)

\* if Y >= 1.0: Y = 0.95
CapY(rawY) == IF RatLeq(RatInt(1), rawY) THEN Rat(CapNum, 100) ELSE rawY

\* variant: the upper clamp is missing
CycleLength_NoMax(L, Y) ==
    LET raw == Rat((3 * L + 10) * Y.d, 2 * (Y.d - Y.n))
    IN  RoundHalfEven(RatMax(RatInt(MIN_CYCLE), raw))

\* C_opt = (1.5 L + 5) / (1 - Y), clamped to [MIN_CYCLE, MAX_CYCLE], rounded
CycleLength(L, Y) ==
    LET raw == Rat((3 * L + 10) * Y.d, 2 * (Y.d - Y.n))
    IN  RoundHalfEven(RatMax(RatInt(MIN_CYCLE), RatMin(RatInt(MAX_CYCLE), raw)))

\* variant: a phase gets the share of the available green that its flow
\* ratio leaves to the others
GreenShare_Complement(phase, y, Y, available_green, nPhases) ==
    LET raw == IF Y.n > 0
               THEN Rat((Y.n * y.d - y.n * Y.d) * available_green, y.d * Y.n)
               ELSE Rat(available_green, nPhases)
    IN  RoundHalfEven(RatMax(RatInt(phase.min_green_s),
                             RatMin(RatInt(phase.max_green_s), raw)))

\* proportional share of the available green, clamped to the phase bounds, rounded
GreenShare(phase, y, Y, available_green, nPhases) ==
    LET raw == IF Y.n > 0
               THEN Rat(y.n * Y.d * available_green, y.d * Y.n)
               ELSE Rat(available_green, nPhases)
    IN  RoundHalfEven(RatMax(RatInt(phase.min_green_s),
                             RatMin(RatInt(phase.max_green_s), raw)))

\* variant: the red time is not made safe
PhaseTiming_NoRedGuard(phase, y, Y, C_opt, available_green, nPhases) ==
    LET green0 == GreenShare(phase, y, Y, available_green, nPhases)
    IN  [name |-> phase.name,
         green_s |-> IntMax(0, green0),
         yellow_s |-> YELLOW_TIME,
         red_s |-> C_opt - green0 - YELLOW_TIME,
         flow_ratio |-> Round3(y)]

\* red = C - green - yellow; green gives way when red < MIN_RED_TIME
PhaseTiming(phase, y, Y, C_opt, available_green, nPhases) ==
    LET green0 == GreenShare(phase, y, Y, available_green, nPhases)
        red0   == C_opt - green0 - YELLOW_TIME
        green  == IF red0 < MIN_RED_TIME
                  THEN C_opt - MIN_RED_TIME - YELLOW_TIME ELSE green0
        red    == IF red0 < MIN_RED_TIME THEN MIN_RED_TIME ELSE red0
    IN  [name |-> phase.name,
         green_s |-> IntMax(0, green),
         yellow_s |-> YELLOW_TIME,
         red_s |-> IntMax(MIN_RED_TIME, red),
         flow_ratio |-> Round3(y)]

NoTiming ==
    [kind |-> "none", cycle_length |-> 0, phases |-> << >>,
     total_lost_time |-> 0, sum_flow_ratios |-> RatInt(0),
     is_oversaturated |-> FALSE]

optimize(jid, live_flows, has_config, given_config) ==
    IF jid \notin KnownJunctions
    THEN [NoTiming EXCEPT !.kind = "ValueError"]
    ELSE
    LET phase_config == IF has_config THEN given_config
                        ELSE default_phase_config(jid)
        n == Len(phase_config)
        flow_ratios == [i \in 1..n |->
                          calculate_phase_flow_ratio(jid, phase_config[i], live_flows)]
        rawY == RatSum(flow_ratios, n)
        Y == CapY(rawY)
        L == n * LOST_TIME_PER_PHASE
        C_opt == CycleLength(L, Y)
        available_green == C_opt - L
    IN  [kind |-> "timing",
         cycle_length |-> C_opt,
         phases |-> [i \in 1..n |->
                       PhaseTiming(phase_config[i], flow_ratios[i], Y, C_opt,
                                   available_green, n)],
         total_lost_time |-> L,
         sum_flow_ratios |-> Y,
         is_oversaturated |-> IsOversaturated(rawY)]

(***************************************************************************)
(* SpillbackDetector                                                       *)
(***************************************************************************)
\* warning_threshold 0.70 and critical_threshold 0.85, in percent
WARNING_PCT == 70
CRITICAL_PCT == 85
HISTORY_MAX_LEN == 12

\* SpillbackStatus.value
StatusValue == [OK |-> 0, WARNING |-> 1, CRITICAL |-> 2, SPILLBACK |-> 3]

\* occupancy = queue / capacity if capacity > 0 else 1.0
Occupancy(queue, capacity) ==
    IF capacity > 0 THEN Rat(queue, capacity) ELSE RatInt(1)

\* variant: the thresholds are exclusive
ApproachLevel_Exclusive(queue, capacity) ==
    LET occupancy == Occupancy(queue, capacity)
    IN  IF RatLt(RatInt(1), occupancy) THEN "SPILLBACK"
        ELSE IF RatLt(Rat(CRITICAL_PCT, 100), occupancy) THEN "CRITICAL"
        ELSE IF RatLt(Rat(WARNING_PCT, 100), occupancy) THEN "WARNING"
        ELSE "OK"

\* the if/elif chain on occupancy
ApproachLevel(queue, capacity) ==
    LET occupancy == Occupancy(queue, capacity)
    IN  IF RatLeq(RatInt(1), occupancy) THEN "SPILLBACK"
        ELSE IF RatLeq(Rat(CRITICAL_PCT, 100), occupancy) THEN "CRITICAL"
        ELSE IF RatLeq(Rat(WARNING_PCT, 100), occupancy) THEN "WARNING"
        ELSE "OK"

\* variant: the estimate is also made for an approach at SPILLBACK
HasTimeToSpillback_AnyStatus(dir, status, inflow) ==
    /\ inflow.given
    /\ DOMAIN inflow.rates # {}
    /\ dir \in DOMAIN inflow.rates
    /\ inflow.rates[dir] > 0

\* tts = (remaining / inflow) * 3600 when an inflow > 0 is supplied and the
\* approach is not at SPILLBACK; None otherwise
HasTimeToSpillback(dir, status, inflow) ==
    /\ inflow.given
    /\ DOMAIN inflow.rates # {}
    /\ dir \in DOMAIN inflow.rates
    /\ status # "SPILLBACK"
    /\ inflow.rates[dir] > 0

AnalyzeApproach(jid, dir, queue, inflow) ==
    LET capacity == get_storage_capacity(jid, dir)
        status == ApproachLevel(queue, capacity)
        tts == HasTimeToSpillback(dir, status, inflow)
    IN  [direction |-> dir,
         queue_length |-> queue,
         storage_capacity |-> capacity,
         \* round(occupancy * 100, 1), in tenths of a percent
         occupancy_pct |-> RoundHalfEven(Rat(Occupancy(queue, capacity).n * 1000,
                                             Occupancy(queue, capacity).d)),
         status |-> status,
         has_tts |-> tts,
         time_to_spillback_s |->
             IF tts THEN Rat((capacity - queue) * 3600, inflow.rates[dir]) ELSE RatInt(0)]

\* variant: the comparison of the running worst status is the wrong way round
WorstStatus_Least(approaches) ==
    LET all == {approaches[d].status : d \in DOMAIN approaches} \cup {"OK"}
    IN  CHOOSE st \in all : \A o \in all : StatusValue[st] <= StatusValue[o]

\* the status with the largest value among the approaches, OK when there is none
WorstStatus(approaches) ==
    LET all == {approaches[d].status : d \in DOMAIN approaches} \cup {"OK"}
    IN  CHOOSE st \in all : \A o \in all : StatusValue[o] <= StatusValue[st]

\* variant: the CRITICAL approaches are looked at before the SPILLBACK ones
generate_recommendation_CriticalFirst(approaches, overall) ==
    LET critical_dirs == {d \in DOMAIN approaches : approaches[d].status = "CRITICAL"}
        spillback_dirs == {d \in DOMAIN approaches : approaches[d].status = "SPILLBACK"}
    IN  IF overall = "OK" THEN [text |-> "No action needed", dirs |-> {}]
        ELSE IF critical_dirs # {}
             THEN [text |-> "Extend green by 10-15s", dirs |-> critical_dirs]
        ELSE IF spillback_dirs # {}
             THEN [text |-> "URGENT: Extend green, consider blocking upstream",
                   dirs |-> spillback_dirs]
        ELSE [text |-> "Monitor closely, consider extending green", dirs |-> {}]

\* the text is kept as its kind and the directions it joins
generate_recommendation(approaches, overall) ==
    LET critical_dirs == {d \in DOMAIN approaches : approaches[d].status = "CRITICAL"}
        spillback_dirs == {d \in DOMAIN approaches : approaches[d].status = "SPILLBACK"}
    IN  IF overall = "OK" THEN [text |-> "No action needed", dirs |-> {}]
        ELSE IF spillback_dirs # {}
             THEN [text |-> "URGENT: Extend green, consider blocking upstream",
                   dirs |-> spillback_dirs]
        ELSE IF critical_dirs # {}
             THEN [text |-> "Extend green by 10-15s", dirs |-> critical_dirs]
        ELSE [text |-> "Monitor closely, consider extending green", dirs |-> {}]

\* variant: the deque has no maximum length
DequeAppend_Unbounded(dq, item) == Append(dq, item)

\* deque(maxlen = HISTORY_MAX_LEN).append
DequeAppend(dq, item) ==
    IF Len(dq) >= HISTORY_MAX_LEN THEN Append(Tail(dq), item) ELSE Append(dq, item)

\* pairs of sums of three queue lengths (up to 129), exactly 6 apart, whose
\* thirds differ by more than 2 in IEEE double arithmetic
RoundedApartSums == {<<14, 8>>, <<17, 11>>, <<25, 19>>, <<28, 22>>,
                     <<50, 44>>, <<53, 47>>, <<97, 91>>, <<100, 94>>}

\* sum(a) / 3 - sum(b) / 3 > 2, as floating point evaluates it
MeanAbove(sum_a, sum_b) ==
    sum_a - sum_b > 6 \/ <<sum_a, sum_b>> \in RoundedApartSums

\* get_queue_trend on the samples kept for one approach
get_queue_trend(samples) ==
    IF Len(samples) < 3 THEN "STABLE"
    ELSE LET n == Len(samples)
             recent == samples[n - 2][2] + samples[n - 1][2] + samples[n][2]
             older == samples[1][2] + samples[2][2] + samples[3][2]
         IN  IF MeanAbove(recent, older) THEN "INCREASING"
             ELSE IF MeanAbove(older, recent) THEN "DECREASING"
             ELSE "STABLE"

\* self.history.get(key, []): nothing is kept for a key never recorded
SamplesOf(hist, jid, dir) ==
    IF <<jid, dir>> \in DOMAIN hist THEN hist[<<jid, dir>>] ELSE << >>

\* variant: one of the two conditions is enough
should_block_upstream_Either(hist, jid, dir) ==
    LET capacity == get_storage_capacity(jid, dir)
        samples == SamplesOf(hist, jid, dir)
    IN  IF samples = << >> THEN FALSE
        ELSE \/ 10 * samples[Len(samples)][2] >= 9 * capacity
             \/ get_queue_trend(samples) = "INCREASING"

\* current_queue >= capacity * 0.90 and trend == "INCREASING"
should_block_upstream(hist, jid, dir) ==
    LET capacity == get_storage_capacity(jid, dir)
        samples == SamplesOf(hist, jid, dir)
    IN  IF samples = << >> THEN FALSE
        ELSE /\ 10 * samples[Len(samples)][2] >= 9 * capacity
             /\ get_queue_trend(samples) = "INCREASING"

NoQuery == [kind |-> "none", junction_id |-> "", direction |-> "",
            trend |-> "", block |-> FALSE]

NoStatus ==
    [kind |-> "none", junction_id |-> "", timestamp |-> 0,
     approaches |-> << >>, overall_status |-> "OK",
     recommended_action |-> [text |-> "", dirs |-> {}]]

NoInflow == [given |-> FALSE, rates |-> << >>]

NoAnalyzeCall == [junction_id |-> "", queue_lengths |-> << >>, inflow_rates |-> NoInflow]

\* the JunctionStatus analyze returns for a known junction
analyze(jid, queue_lengths, inflow, now) ==
    LET approaches == [d \in DOMAIN queue_lengths |->
                          AnalyzeApproach(jid, d, queue_lengths[d], inflow)]
        worst == WorstStatus(approaches)
    IN  [kind |-> "status", junction_id |-> jid, timestamp |-> now,
         approaches |-> approaches, overall_status |-> worst,
         recommended_action |-> generate_recommendation(approaches, worst)]

(***************************************************************************)
(* Inputs of analyze                                                       *)
(***************************************************************************)
QueueDirections == {"north", "east"}

QueueValues == {13, 14, 17, 20, 28, 34}

QueueMaps == UNION { [ds -> QueueValues] : ds \in SUBSET QueueDirections }

InflowChoices == {NoInflow, [given |-> TRUE, rates |-> [north |-> 600, east |-> 0]]}

HistoryKeys == KnownJunctions \X Directions

DInit ==
    /\ history = [k \in HistoryKeys |-> << >>]
    /\ dClock = 0
    /\ dIn = NoAnalyzeCall
    /\ dOut = NoStatus
    /\ qOut = NoQuery
    /\ recorded = [k \in HistoryKeys |-> << >>]

\* analyze on a known junction: classify every approach, record its sample
Analyze(jid, queue_lengths, inflow, maxCalls) ==
    /\ dClock < maxCalls
    /\ jid \in KnownJunctions
    /\ dClock' = dClock + 1
    /\ dIn' = [junction_id |-> jid, queue_lengths |-> queue_lengths, inflow_rates |-> inflow]
    /\ dOut' = analyze(jid, queue_lengths, inflow, dClock')
    /\ history' = [k \in HistoryKeys |->
                     IF k[1] = jid /\ k[2] \in DOMAIN queue_lengths
                     THEN DequeAppend(history[k], <<dClock', queue_lengths[k[2]]>>)
                     ELSE history[k]]
    /\ recorded' = [k \in HistoryKeys |->
                      IF k[1] = jid /\ k[2] \in DOMAIN queue_lengths
                      THEN Append(recorded[k], <<dClock', queue_lengths[k[2]]>>)
                      ELSE recorded[k]]
    /\ qOut' = NoQuery

\* variant: the junction is not looked up and a status is returned
AnalyzeUnknown_Status(jid, queue_lengths, inflow, maxCalls) ==
    /\ dClock < maxCalls
    /\ jid \notin KnownJunctions
    /\ dClock' = dClock + 1
    /\ dIn' = [junction_id |-> jid, queue_lengths |-> queue_lengths, inflow_rates |-> inflow]
    /\ dOut' = analyze(jid, queue_lengths, inflow, dClock')
    /\ UNCHANGED <<history, recorded>>
    /\ qOut' = NoQuery

\* analyze on an unknown junction raises ValueError before anything is recorded
AnalyzeUnknown(jid, queue_lengths, inflow, maxCalls) ==
    /\ dClock < maxCalls
    /\ jid \notin KnownJunctions
    /\ dClock' = dClock + 1
    /\ dIn' = [junction_id |-> jid, queue_lengths |-> queue_lengths, inflow_rates |-> inflow]
    /\ dOut' = [NoStatus EXCEPT !.kind = "ValueError", !.junction_id = jid]
    /\ UNCHANGED <<history, recorded>>
    /\ qOut' = NoQuery

\* get_queue_trend and should_block_upstream read the history and leave it alone
BlockQuery(jid, dir) ==
    /\ qOut' = [kind |-> "block", junction_id |-> jid, direction |-> dir,
                trend |-> get_queue_trend(SamplesOf(history, jid, dir)),
                block |-> should_block_upstream(history, jid, dir)]
    /\ UNCHANGED <<history, dClock, dIn, dOut, recorded>>

DNext ==
    \/ \E jid \in KnownJunctions, q \in QueueMaps, f \in InflowChoices :
          Analyze(jid, q, f, MaxAnalyze) /\ UNCHANGED websterVars /\ UNCHANGED controllerVars /\ UNCHANGED geoVars /\ UNCHANGED collectorVars
    \/ \E q \in {[north |-> 20]}, f \in {NoInflow} :
          AnalyzeUnknown("J999", q, f, MaxAnalyze) /\ UNCHANGED websterVars /\ UNCHANGED controllerVars /\ UNCHANGED geoVars /\ UNCHANGED collectorVars

\* queue lengths of the approach north (capacity 20) when the trend is read
TrendQueues == {3, 10, 18}

\* a run of analyze calls on one approach, with the upstream question asked
\* in between
TNext ==
    \/ \E q \in TrendQueues :
          /\ Analyze("J001", [north |-> q], NoInflow, TrendCalls)
          /\ UNCHANGED websterVars /\ UNCHANGED controllerVars /\ UNCHANGED geoVars /\ UNCHANGED collectorVars
    \/ \E jid \in JunctionIds, dir \in {"north", "west"} :
          /\ BlockQuery(jid, dir)
          /\ UNCHANGED websterVars /\ UNCHANGED controllerVars /\ UNCHANGED geoVars /\ UNCHANGED collectorVars

\* queue maps of a long run: north alone, or north and east together
LongRunQueues == {[north |-> 5], [north |-> 6, east |-> 7]}

\* a run of analyze calls long enough to fill the history of an approach
HNext ==
    \E q \in LongRunQueues :
        /\ Analyze("J001", q, NoInflow, HistoryCalls)
        /\ UNCHANGED websterVars /\ UNCHANGED controllerVars /\ UNCHANGED geoVars /\ UNCHANGED collectorVars

\* queue lengths whose sums of three can be exactly 6 apart: 2 + 3 + 3 and
\* 6 + 6 + 2
MeanQueues == {2, 3, 6}

\* six samples on one approach, the trend read at any point
MNext ==
    \/ \E q \in MeanQueues :
          /\ Analyze("J001", [north |-> q], NoInflow, MeanCalls)
          /\ UNCHANGED websterVars /\ UNCHANGED controllerVars /\ UNCHANGED geoVars /\ UNCHANGED collectorVars
    \/ /\ BlockQuery("J001", "north")
       /\ UNCHANGED websterVars /\ UNCHANGED controllerVars /\ UNCHANGED geoVars /\ UNCHANGED collectorVars

\* inflow_rates: None, an empty map, rates for both approaches (one of them
\* zero), a rate for east only, a negative rate
InflowMaps ==
    {NoInflow,
     [given |-> TRUE, rates |-> << >>],
     [given |-> TRUE, rates |-> [north |-> 600, east |-> 0]],
     [given |-> TRUE, rates |-> [east |-> 300]],
     [given |-> TRUE, rates |-> [north |-> -100, east |-> 300]]}

\* analyze with every kind of inflow map
FNext ==
    \E q \in QueueMaps, f \in InflowMaps :
        /\ Analyze("J001", q, f, InflowCalls)
        /\ UNCHANGED websterVars /\ UNCHANGED controllerVars /\ UNCHANGED geoVars /\ UNCHANGED collectorVars

(***************************************************************************)
(* Inputs of optimize                                                      *)
(***************************************************************************)
FlowValues == {0, 900, 1620, 5000}

ApproachSets == {{"north"}, {"east", "west"}, {"north", "east"}}

MinGreens == {15, 40}

MaxGreens == {20, 60}

PhaseChoices ==
    { [name |-> IF a = {"north"} THEN "N" ELSE IF a = {"east", "west"} THEN "EW" ELSE "NE",
       approaches |-> a, min_green_s |-> lo, max_green_s |-> hi] :
         a \in ApproachSets, lo \in MinGreens, hi \in MaxGreens }

PhaseConfigs == UNION { [1..n -> PhaseChoices] : n \in 0..MaxPhases }

WebsterInputs ==
    { [junction_id |-> j, live_flows |-> f, has_config |-> TRUE, phase_config |-> p] :
        j \in KnownJunctions, f \in [Directions -> FlowValues], p \in PhaseConfigs }
    \cup
    { [junction_id |-> j, live_flows |-> f, has_config |-> FALSE, phase_config |-> << >>] :
        j \in JunctionIds, f \in [Directions -> FlowValues] }

\* the configuration the call of wIn worked with
UsedConfig(in) ==
    IF in.has_config THEN in.phase_config ELSE default_phase_config(in.junction_id)

\* the raw sum of critical flow ratios of the call of wIn
RawY(in) ==
    LET cfg == UsedConfig(in)
    IN  RatSum([i \in 1..Len(cfg) |->
                  calculate_phase_flow_ratio(in.junction_id, cfg[i], in.live_flows)],
               Len(cfg))

NoWebsterCall ==
    [junction_id |-> "", live_flows |-> << >>, has_config |-> FALSE, phase_config |-> << >>]

WInit ==
    /\ wIn \in WebsterInputs
    /\ wOut = NoTiming

Optimize ==
    /\ wOut.kind = "none"
    /\ wOut' = optimize(wIn.junction_id, wIn.live_flows, wIn.has_config, wIn.phase_config)
    /\ UNCHANGED wIn

WNext ==
    Optimize /\ UNCHANGED detectorVars /\ UNCHANGED controllerVars /\ UNCHANGED geoVars /\ UNCHANGED collectorVars

(***************************************************************************)
(* StabilizedAdaptiveController                                            *)
(* What happens to a junction in a cycle is an outcome record: the error   *)
(* raised (if any), the raw flows measured, the green_s of the phases of   *)
(* the plan self.optimizer.optimize returned, the phase SUMO is in.        *)
(* and the queue length in metres the detector measured on each approach.  *)
(***************************************************************************)
MIN_GREEN_S == 15
MAX_GREEN_S == 60
MAX_GREEN_CHANGE_S == 10
STABILITY_WINDOW == 3
\* performance_threshold 1.1 as a fraction
THRESHOLD_NUM == 11
THRESHOLD_DEN == 10
PERFORMANCE_HISTORY_LEN == 5
\* smoothing_alpha 0.3 as a fraction
ALPHA_NUM == 3
ALPHA_DEN == 10

CtlJunctions == {"J001", "J002"}

\* phase indexes of the two-phase plan the optimizer returns by default
PhaseIdxs == {0, 1}

Abs(x) == IF x < 0 THEN -x ELSE x

\* variant: the lower bound is not applied
BoundGreen_NoMin(green) == IntMin(MAX_GREEN_S, green)

\* max(min_green_s, min(max_green_s, target_green))
BoundGreen(green) == IntMax(MIN_GREEN_S, IntMin(MAX_GREEN_S, green))

IsRateLimited(current_green, target_green) ==
    Abs(target_green - current_green) > MAX_GREEN_CHANGE_S

\* variant: the step is taken away from the target
RateLimit_WrongSign(current_green, target_green) ==
    IF IsRateLimited(current_green, target_green)
    THEN current_green + (IF target_green - current_green > 0
                          THEN -MAX_GREEN_CHANGE_S ELSE MAX_GREEN_CHANGE_S)
    ELSE target_green

\* the change towards the target is capped at max_green_change_s
RateLimit(current_green, target_green) ==
    IF IsRateLimited(current_green, target_green)
    THEN current_green + (IF target_green - current_green > 0
                          THEN MAX_GREEN_CHANGE_S ELSE -MAX_GREEN_CHANGE_S)
    ELSE target_green

\* variant: the first observation is smoothed against a history of zero
SmoothFlows_NoSeed(prev, raw_flows) ==
    [a \in DOMAIN prev \cup DOMAIN raw_flows |->
        IF a \notin DOMAIN raw_flows THEN prev[a]
        ELSE LET p == IF a \in DOMAIN prev THEN prev[a] ELSE RatInt(0)
             IN  Rat(ALPHA_NUM * raw_flows[a] * p.d + (ALPHA_DEN - ALPHA_NUM) * p.n,
                     ALPHA_DEN * p.d)]

\* smoothed = alpha * raw + (1 - alpha) * previous; the first observation of
\* an approach is taken as it is; approaches not measured keep their value
SmoothFlows(prev, raw_flows) ==
    [a \in DOMAIN prev \cup DOMAIN raw_flows |->
        IF a \notin DOMAIN raw_flows THEN prev[a]
        ELSE IF a \in DOMAIN prev
             THEN Rat(ALPHA_NUM * raw_flows[a] * prev[a].d
                        + (ALPHA_DEN - ALPHA_NUM) * prev[a].n,
                      ALPHA_DEN * prev[a].d)
             ELSE RatInt(raw_flows[a])]

\* errors raised before the phases are handled
EarlyErrors == {"measure", "optimize", "get_phase"}

\* the error leaves _optimize_junction_stable: it is raised before its try block
EscapesJunction(o) == o.error = "measure"

\* variant: the loop over the junctions lets the error through
LoopCatches_Not(o) == FALSE

\* try: self._optimize_junction_stable(junction_id) / except Exception: pass
LoopCatches(o) == TRUE

\* set_phase_duration is called for the current phase and raises
SinkFails(o) == o.error = "set_duration" /\ o.current_phase \in PhaseIdxs

\* one iteration of the loop over the phases of the timing plan
ApplyPhase(st, jid, o, idx) ==
    LET bounded == BoundGreen(o.greens[idx + 1])
        current_green == IF idx \in DOMAIN st.greens[jid]
                         THEN st.greens[jid][idx] ELSE bounded
        target_green == RateLimit(current_green, bounded)
        limited == IsRateLimited(current_green, bounded)
        stored == [st EXCEPT
                     !.greens[jid] = (idx :> target_green) @@ @,
                     !.metrics.rate_limited_changes = @ + (IF limited THEN 1 ELSE 0)]
    IN  IF idx # o.current_phase THEN stored
        ELSE IF SinkFails(o) THEN [stored EXCEPT !.failed = TRUE]
        ELSE [stored EXCEPT !.duration[jid] = target_green]

RECURSIVE PhaseLoop(_, _, _, _)
PhaseLoop(st, jid, o, idx) ==
    IF idx >= Len(o.greens) \/ st.failed THEN st
    ELSE PhaseLoop(ApplyPhase(st, jid, o, idx), jid, o, idx + 1)

\* the junctions under control come from the file the geometric database is
\* loaded from; they have the approaches of J001
ControlledApproaches(jid) == JunctionApproaches["J001"]

\* the approaches counted as spillback events:
\* state.queue_length_m > storage_m * 0.85 on an approach the geometry knows
SpilledApproaches(jid, o) ==
    { a \in DOMAIN o.queue_m :
        /\ a \in DOMAIN ControlledApproaches(jid)
        /\ 100 * o.queue_m[a] > 85 * ControlledApproaches(jid)[a].storage_length_m }

\* variant: the snapshot is saved whatever the failure counter is
SavesStable_Always(fc) == TRUE

\* if self._failure_count == 0: the greens are saved as the stable timing
SavesStable(fc) == fc = 0

\* _optimize_junction_stable: st holds flows, greens, stable, metrics, duration
optimize_junction_stable(st, jid, o, fc) ==
    IF o.error = "measure" \/ DOMAIN o.raw_flows = {} THEN st
    ELSE LET done == PhaseLoop(st, jid, o, 0)
             applied ==
                 IF o.error \in EarlyErrors \/ Len(o.greens) = 0 THEN st
                 ELSE IF done.failed THEN [done EXCEPT !.failed = FALSE]
                 ELSE [done EXCEPT
                         !.stable[jid] = IF SavesStable(fc) THEN done.greens[jid] ELSE @,
                         !.metrics.optimization_count = @ + 1]
         IN  \* the flows are smoothed and stored before the optimizer is called
             [applied EXCEPT
                !.flows[jid] = SmoothFlows(@, o.raw_flows),
                !.metrics.spillback_events = @ + Cardinality(SpilledApproaches(jid, o))]

\* the loop over the configured junctions; raised when an error gets out of it
RECURSIVE JunctionLoop(_, _, _, _)
JunctionLoop(st, outcomes, fc, i) ==
    IF i > Len(junction_config) \/ st.raised THEN st
    ELSE LET jid == junction_config[i]
             o == outcomes[jid]
         IN  IF EscapesJunction(o) /\ ~LoopCatches(o)
             THEN [st EXCEPT !.raised = TRUE]
             ELSE JunctionLoop(optimize_junction_stable(st, jid, o, fc),
                               outcomes, fc, i + 1)

\* current_delay > prev_delay * threshold
Degraded(current_delay, prev_delay) ==
    current_delay * THRESHOLD_DEN > prev_delay * THRESHOLD_NUM

\* the value of _failure_count after _should_revert
FailureCountAfterCheck(current_delay) ==
    IF performance_history = << >> THEN failure_count
    ELSE IF Degraded(current_delay, performance_history[Len(performance_history)])
         THEN failure_count + 1
         ELSE 0

\* _should_revert
should_revert(current_delay) ==
    /\ performance_history # << >>
    /\ Degraded(current_delay, performance_history[Len(performance_history)])
    /\ failure_count + 1 >= STABILITY_WINDOW

\* the durations SUMO holds after _revert_to_stable walked the snapshots
RevertDurations(outcomes) ==
    [j \in CtlJunctions |->
        IF /\ stable_timings[j] # << >>
           /\ outcomes[j].error \notin {"get_phase", "set_duration"}
           /\ outcomes[j].current_phase \in DOMAIN stable_timings[j]
        THEN stable_timings[j][outcomes[j].current_phase]
        ELSE phase_duration[j]]

\* performance_history.append(current_delay), at most 5 entries kept
AppendDelay(hist, current_delay) ==
    LET h == Append(hist, current_delay)
    IN  IF Len(h) > PERFORMANCE_HISTORY_LEN THEN Tail(h) ELSE h

NoCycle == [kind |-> "none", delay |-> 0, outcomes |-> << >>]

CInit(config) ==
    /\ junction_config = config
    /\ flow_history = [j \in CtlJunctions |-> << >>]
    /\ current_greens = [j \in CtlJunctions |-> << >>]
    /\ stable_timings = [j \in CtlJunctions |-> << >>]
    /\ performance_history = << >>
    /\ failure_count = 0
    /\ metrics = [total_waiting_time |-> 0, total_vehicles |-> 0,
                  optimization_count |-> 0, spillback_events |-> 0,
                  reversions |-> 0, rate_limited_changes |-> 0]
    /\ phase_duration = [j \in CtlJunctions |-> 0]
    /\ cycles = 0
    /\ last = NoCycle

\* the branch of _run_optimization_cycle that reverts and returns
RevertBranch(current_delay, outcomes) ==
    /\ UNCHANGED <<flow_history, current_greens, stable_timings, performance_history>>
    /\ IF \A j \in CtlJunctions : stable_timings[j] = << >>
       THEN /\ failure_count' = failure_count + 1
            /\ UNCHANGED <<metrics, phase_duration>>
            /\ last' = [kind |-> "revert_without_snapshot", delay |-> current_delay,
                        outcomes |-> outcomes]
       ELSE /\ failure_count' = 0
            /\ metrics' = [metrics EXCEPT !.reversions = @ + 1]
            /\ phase_duration' = RevertDurations(outcomes)
            /\ last' = [kind |-> "reverted", delay |-> current_delay,
                        outcomes |-> outcomes]

\* the branch of _run_optimization_cycle that optimizes every junction
OptimizeBranch(current_delay, outcomes) ==
    LET fc == FailureCountAfterCheck(current_delay)
        st == JunctionLoop([flows |-> flow_history,
                            greens |-> current_greens, stable |-> stable_timings,
                            metrics |-> metrics, duration |-> phase_duration,
                            failed |-> FALSE, raised |-> FALSE],
                           outcomes, fc, 1)
    IN  /\ failure_count' = fc
        /\ flow_history' = st.flows
        /\ current_greens' = st.greens
        /\ stable_timings' = st.stable
        /\ metrics' = st.metrics
        /\ phase_duration' = st.duration
        /\ performance_history' = IF st.raised THEN performance_history
                                  ELSE AppendDelay(performance_history, current_delay)
        /\ last' = [kind |-> IF st.raised THEN "raised" ELSE "optimized",
                    delay |-> current_delay, outcomes |-> outcomes]

\* _run_optimization_cycle
RunOptimizationCycle(current_delay, outcomes, maxCycles) ==
    /\ cycles < maxCycles
    /\ last.kind # "raised"
    /\ cycles' = cycles + 1
    /\ UNCHANGED junction_config
    /\ IF should_revert(current_delay)
       THEN RevertBranch(current_delay, outcomes)
       ELSE OptimizeBranch(current_delay, outcomes)

\* variant: the count of the current step replaces the largest one seen
collect_metrics_Latest(m, current_vehicles) ==
    [m EXCEPT !.total_vehicles = current_vehicles]

\* _collect_metrics: total_vehicles = max(total_vehicles, current_vehicles)
collect_metrics(m, current_vehicles) ==
    [m EXCEPT !.total_vehicles = IntMax(@, current_vehicles)]

\* _finalize_metrics: the waiting time of the vehicles still in the
\* simulation; their number when it is above the largest one seen
finalize_metrics(m, total_wait, vehicle_count) ==
    [m EXCEPT !.total_waiting_time = total_wait,
              !.total_vehicles = IF vehicle_count > @ THEN vehicle_count ELSE @]

\* a step of the loop of run: the metrics are collected
CollectMetrics(current_vehicles) ==
    /\ metrics' = collect_metrics(metrics, current_vehicles)
    /\ UNCHANGED <<junction_config, flow_history, current_greens, stable_timings,
                   performance_history, failure_count, phase_duration, cycles, last>>

\* the end of run
FinalizeMetrics(total_wait, vehicle_count) ==
    /\ metrics' = finalize_metrics(metrics, total_wait, vehicle_count)
    /\ UNCHANGED <<junction_config, flow_history, current_greens, stable_timings,
                   performance_history, failure_count, phase_duration, cycles, last>>

(***************************************************************************)
(* Inputs of the optimization cycle                                        *)
(***************************************************************************)
\* raw_flow = total_pcu * (3600 / update_interval_s): 10 PCU on each approach
SteadyRaw == [north |-> 800, east |-> 800]

\* queue_length_m of the approaches when nothing is queued
NoQueue == [north |-> 0, east |-> 0]

\* what happens to one junction: the error raised (if any), the raw flows
\* measured, the green_s of the phases of the optimizer's plan, the phase SUMO
\* is in
Outcomes(errors, plans, phases) ==
    { [error |-> e, raw_flows |-> IF e = "measure" THEN << >> ELSE SteadyRaw,
       queue_m |-> IF e = "measure" THEN << >> ELSE NoQueue,
       greens |-> << >>, current_phase |-> 0] : e \in errors \cap EarlyErrors }
    \cup
    { [error |-> e, raw_flows |-> SteadyRaw, queue_m |-> NoQueue,
       greens |-> g, current_phase |-> p] :
        e \in errors \ EarlyErrors, g \in plans, p \in phases }

Idle == [error |-> "none", raw_flows |-> << >>, queue_m |-> << >>,
         greens |-> << >>, current_phase |-> 0]

\* one outcome per configured junction
CycleOutcomes(outcomeSet) ==
    LET configured == { junction_config[i] : i \in 1..Len(junction_config) }
    IN  { [j \in CtlJunctions |-> IF j \in configured THEN f[j] ELSE Idle] :
            f \in [configured -> outcomeSet] }

CNext(delays, outcomeSet, maxCycles) ==
    \E d \in delays, os \in CycleOutcomes(outcomeSet) :
        /\ RunOptimizationCycle(d, os, maxCycles)
        /\ UNCHANGED websterVars
        /\ UNCHANGED detectorVars
        /\ UNCHANGED geoVars /\ UNCHANGED collectorVars

(***************************************************************************)
(* DataCollector: the batch queue, its lock and the threads that use it    *)
(*                                                                         *)
(* Two threads call collect_vision_data(batch=True), the main thread calls *)
(* start_background_collection, force_flush and stop_background_collection,*)
(* the worker is the thread start_background_collection creates.  A record *)
(* is the number of the call that built it.  Whether batch_interval has    *)
(* elapsed and whether store_batch raises is up to the environment.        *)
(***************************************************************************)
\* DataCollector(batch_size = 2)
BATCH_SIZE == 2

Collectors == {"c1", "c2"}

Threads == Collectors \cup {"main", "worker"}

\* the elements of a sequence
Range(seq) == { seq[i] : i \in 1..Len(seq) }

\* variant: the queue is cleared whether store_batch raised or not
AfterStore_ClearAlways(ok) == "clear"

\* _flush_batch after store_batch: clear the queue, or leave it when it raised
AfterStore(ok) == IF ok THEN "clear" ELSE "unlock"

\* where a thread goes on when it leaves the with self.lock block
AfterUnlock(t) == IF t = "worker" THEN "check" ELSE "idle"

\* __init__
KInit ==
    /\ batch_queue = << >>
    /\ lock = "free"
    /\ running = FALSE
    /\ pc = [t \in Threads |-> IF t = "worker" THEN "dead" ELSE "idle"]
    /\ records = [t \in Threads |-> << >>]
    /\ db = << >>
    /\ produced = 0
    /\ failures = 0

IdleCollector == KInit

\* collect_vision_data(batch=True): the data dictionary is built
Collect(t) ==
    /\ pc[t] = "idle"
    /\ produced < MaxRecords
    /\ produced' = produced + 1
    /\ records' = [records EXCEPT ![t] = <<produced + 1>>]
    /\ pc' = [pc EXCEPT ![t] = "add"]
    /\ UNCHANGED <<batch_queue, lock, running, db, failures>>

\* _add_to_batch: with the lock, append and decide whether to flush
AddToBatch(t, elapsed) ==
    /\ pc[t] = "add"
    /\ lock = "free"
    /\ lock' = t
    /\ batch_queue' = Append(batch_queue, records[t][1])
    /\ records' = [records EXCEPT ![t] = << >>]
    /\ pc' = [pc EXCEPT ![t] = IF Len(batch_queue') >= BATCH_SIZE \/ elapsed
                                THEN "flush" ELSE "unlock"]
    /\ UNCHANGED <<running, db, produced, failures>>

\* _flush_batch: nothing to do for an empty queue, else records = list(queue)
FlushCopy(t) ==
    /\ pc[t] = "flush"
    /\ IF batch_queue = << >>
       THEN pc' = [pc EXCEPT ![t] = "unlock"] /\ UNCHANGED records
       ELSE /\ records' = [records EXCEPT ![t] = batch_queue]
            /\ pc' = [pc EXCEPT ![t] = "store"]
    /\ UNCHANGED <<batch_queue, lock, running, db, produced, failures>>

\* traffic_store.store_batch(records): all rows are committed, or it raises
\* and none is
FlushStore(t, ok) ==
    /\ pc[t] = "store"
    /\ ~ok => failures < MaxFailures
    /\ db' = IF ok THEN db \o records[t] ELSE db
    /\ failures' = IF ok THEN failures ELSE failures + 1
    /\ pc' = [pc EXCEPT ![t] = AfterStore(ok)]
    /\ records' = [records EXCEPT ![t] = << >>]
    /\ UNCHANGED <<batch_queue, lock, running, produced>>

\* self.batch_queue.clear()
FlushClear(t) ==
    /\ pc[t] = "clear"
    /\ batch_queue' = << >>
    /\ pc' = [pc EXCEPT ![t] = "unlock"]
    /\ UNCHANGED <<lock, running, records, db, produced, failures>>

\* the end of the with self.lock block
Unlock(t) ==
    /\ pc[t] = "unlock"
    /\ lock' = "free"
    /\ pc' = [pc EXCEPT ![t] = AfterUnlock(t)]
    /\ UNCHANGED <<batch_queue, running, records, db, produced, failures>>

\* start_background_collection: the worker thread is created
StartBackground ==
    /\ pc["main"] = "idle"
    /\ ~running
    /\ pc["worker"] = "dead"
    /\ running' = TRUE
    /\ pc' = [pc EXCEPT !["worker"] = "check"]
    /\ UNCHANGED <<batch_queue, lock, records, db, produced, failures>>

\* stop_background_collection: _running = False, the join returns (the worker
\* has ended or the timeout has passed), the lock is asked for
StopBackground ==
    /\ pc["main"] = "idle"
    /\ running
    /\ running' = FALSE
    /\ pc' = [pc EXCEPT !["main"] = "wait"]
    /\ UNCHANGED <<batch_queue, lock, records, db, produced, failures>>

\* force_flush: the lock is asked for
ForceFlush ==
    /\ pc["main"] = "idle"
    /\ pc' = [pc EXCEPT !["main"] = "wait"]
    /\ UNCHANGED <<batch_queue, lock, running, records, db, produced, failures>>

\* with self.lock: self._flush_batch()
MainLock ==
    /\ pc["main"] = "wait"
    /\ lock = "free"
    /\ lock' = "main"
    /\ pc' = [pc EXCEPT !["main"] = "flush"]
    /\ UNCHANGED <<batch_queue, running, records, db, produced, failures>>

\* _background_worker: while self._running: time.sleep(batch_interval)
WorkerCheck ==
    /\ pc["worker"] = "check"
    /\ pc' = [pc EXCEPT !["worker"] = IF running THEN "wait" ELSE "dead"]
    /\ UNCHANGED <<batch_queue, lock, running, records, db, produced, failures>>

\* _background_worker: with self.lock: if self.batch_queue: self._flush_batch()
WorkerLock ==
    /\ pc["worker"] = "wait"
    /\ lock = "free"
    /\ lock' = "worker"
    /\ pc' = [pc EXCEPT !["worker"] = IF batch_queue # << >> THEN "flush" ELSE "unlock"]
    /\ UNCHANGED <<batch_queue, running, records, db, produced, failures>>

\* the collector leaves the optimizer, the detector, the geometry and the
\* controller alone
KFrame ==
    /\ UNCHANGED websterVars /\ UNCHANGED detectorVars
    /\ UNCHANGED controllerVars /\ UNCHANGED <<geoIn, geoOut>>

NextCollector ==
    \/ \E t \in Collectors : Collect(t) /\ KFrame
    \/ \E t \in Collectors, elapsed \in BOOLEAN : AddToBatch(t, elapsed) /\ KFrame
    \/ \E t \in Threads : FlushCopy(t) /\ KFrame
    \/ \E t \in Threads, ok \in BOOLEAN : FlushStore(t, ok) /\ KFrame
    \/ \E t \in Threads : FlushClear(t) /\ KFrame
    \/ \E t \in Threads : Unlock(t) /\ KFrame
    \/ StartBackground /\ KFrame
    \/ StopBackground /\ KFrame
    \/ ForceFlush /\ KFrame
    \/ MainLock /\ KFrame
    \/ WorkerCheck /\ KFrame
    \/ WorkerLock /\ KFrame

IdleWebster == wIn = NoWebsterCall /\ wOut = NoTiming

\* one junction, every failure point, plans outside and inside the bounds;
\* set_phase_duration can fail in the first and in the second phase
GreensOutcomes ==
    Outcomes({"none", "measure", "optimize", "get_phase"},
             {<<70, 10>>, <<10, 70>>, <<40, 40>>}, {0})
    \cup Outcomes({"set_duration"}, {<<70, 10>>, <<10, 70>>, <<40, 40>>}, {0, 1})

InitGreens == CInit(<<"J001">>) /\ IdleWebster /\ DInit /\ IdleGeo /\ IdleCollector

NextGreens == CNext({1, 2}, GreensOutcomes, GreensCycles)

SpecGreens == InitGreens /\ [][NextGreens]_vars

\* two junctions, every failure point
LoopOutcomes ==
    Outcomes({"none", "measure", "optimize", "get_phase", "set_duration"},
             {<<70, 10>>}, {0})

InitLoop == CInit(<<"J001", "J002">>) /\ IdleWebster /\ DInit /\ IdleGeo /\ IdleCollector

NextLoop == CNext({1, 2}, LoopOutcomes, LoopCycles)

SpecLoop == InitLoop /\ [][NextLoop]_vars

\* one junction, delays that can rise for STABILITY_WINDOW cycles in a row
RevertOutcomes ==
    Outcomes({"none", "optimize", "set_duration"}, {<<70, 10>>, <<10, 70>>}, {0})

InitRevert == CInit(<<"J001">>) /\ IdleWebster /\ DInit /\ IdleGeo /\ IdleCollector

NextRevert == CNext({1, 2, 3, 4}, RevertOutcomes, RevertCycles)

SpecRevert == InitRevert /\ [][NextRevert]_vars

\* the flows handed to the optimizer, in whole PCU/hr on every direction
WholeFlows(smoothed) ==
    [d \in Directions |->
        IF d \in DOMAIN smoothed THEN smoothed[d].n \div smoothed[d].d ELSE 0]

\* timing_plan = self.optimizer.optimize(junction_id, smoothed_flows): the
\* green_s of its phases, none when it raises
OptimizerGreens(jid, smoothed) ==
    LET plan == optimize(jid, WholeFlows(smoothed), FALSE, << >>)
    IN  [i \in 1..Len(plan.phases) |-> plan.phases[i].green_s]

\* raw flows of the approaches of J001: 0, 5, 10 and 20 PCU per interval
SmoothRaw == [{"north", "east"} -> {0, 400, 800, 1600}]

\* one junction whose measurement is the same in every cycle, no error, no
\* three degradations in a row; the plan is the optimizer's for the smoothed flows
NextSmooth ==
    \E d \in {1, 2}, raw \in SmoothRaw, p \in PhaseIdxs :
        LET o == [error |-> "none", raw_flows |-> raw, queue_m |-> NoQueue,
                  greens |-> OptimizerGreens("J001", SmoothFlows(flow_history["J001"], raw)),
                  current_phase |-> p]
        IN  /\ cycles > 0 => raw = last.outcomes["J001"].raw_flows
            /\ RunOptimizationCycle(d, [j \in CtlJunctions |->
                                           IF j = "J001" THEN o ELSE Idle], SmoothCycles)
            /\ UNCHANGED websterVars
            /\ UNCHANGED detectorVars
            /\ UNCHANGED geoVars /\ UNCHANGED collectorVars

InitSmooth == CInit(<<"J001">>) /\ IdleWebster /\ DInit /\ IdleGeo /\ IdleCollector

SpecSmooth == InitSmooth /\ [][NextSmooth]_vars

\* one junction that is always optimized; the delays can rise for
\* STABILITY_WINDOW cycles in a row and then stay
DelayOutcomes == Outcomes({"none"}, {<<70, 10>>}, {0})

InitDelay == CInit(<<"J001">>) /\ IdleWebster /\ DInit /\ IdleGeo /\ IdleCollector

NextDelay == CNext({1, 2, 3, 4}, DelayOutcomes, DelayCycles)

SpecDelay == InitDelay /\ [][NextDelay]_vars

\* one junction whose plan moves between two targets and whose current phase
\* can refuse its duration; the delays can rise for STABILITY_WINDOW cycles
SnapshotOutcomes ==
    Outcomes({"none"}, {<<70, 10>>, <<10, 70>>}, {0})
    \cup Outcomes({"set_duration"}, {<<10, 70>>}, {0})

InitSnapshot == CInit(<<"J001">>) /\ IdleWebster /\ DInit /\ IdleGeo /\ IdleCollector

NextSnapshot == CNext({1, 2, 3, 4}, SnapshotOutcomes, SnapshotCycles)

SpecSnapshot == InitSnapshot /\ [][NextSnapshot]_vars

\* one junction that is always optimized towards 60/15 and measures 10 PCU on
\* each approach or 20 and 5; the delays can rise for STABILITY_WINDOW cycles
OrderOutcomes ==
    { [error |-> "none", raw_flows |-> raw, queue_m |-> NoQueue,
        greens |-> <<70, 10>>, current_phase |-> 0] :
        raw \in {SteadyRaw, [north |-> 1600, east |-> 400]} }

InitOrder == CInit(<<"J001">>) /\ IdleWebster /\ DInit /\ IdleGeo /\ IdleCollector

NextOrder == CNext({1, 2, 3, 4}, OrderOutcomes, OrderCycles)

SpecOrder == InitOrder /\ [][NextOrder]_vars

\* two junctions whose plans move between two targets; the delay, one
\* average over all vehicles, can rise for STABILITY_WINDOW cycles
SharedOutcomes == Outcomes({"none"}, {<<70, 10>>, <<10, 70>>}, {0})

InitShared == CInit(<<"J001", "J002">>) /\ IdleWebster /\ DInit /\ IdleGeo /\ IdleCollector

NextShared == CNext({1, 2, 3, 4}, SharedOutcomes, SharedCycles)

SpecShared == InitShared /\ [][NextShared]_vars

InitHistory == DInit /\ IdleWebster /\ CInit(<< >>) /\ IdleGeo /\ IdleCollector

SpecHistory == InitHistory /\ [][HNext]_vars

InitMeans == DInit /\ IdleWebster /\ CInit(<< >>) /\ IdleGeo /\ IdleCollector

SpecMeans == InitMeans /\ [][MNext]_vars

InitInflow == DInit /\ IdleWebster /\ CInit(<< >>) /\ IdleGeo /\ IdleCollector

SpecInflow == InitInflow /\ [][FNext]_vars

\* one junction: a cycle that goes through with 130 m queued on north (above
\* 0.85 * 140 m), or one whose set_phase_duration fails on another plan
MetricsOutcomes ==
    { [error |-> "none", raw_flows |-> SteadyRaw, queue_m |-> [north |-> 130, east |-> 0],
       greens |-> <<70, 10>>, current_phase |-> 0],
      [error |-> "set_duration", raw_flows |-> SteadyRaw, queue_m |-> NoQueue,
       greens |-> <<10, 70>>, current_phase |-> 1] }

\* len(traci.vehicle.getIDList()) in a step
VehicleCounts == {2, 5}

InitMetrics == CInit(<<"J001">>) /\ IdleWebster /\ DInit /\ IdleGeo /\ IdleCollector

\* run: steps that collect the metrics, optimization cycles in between, the
\* final metrics at the end (run can be called again afterwards)
NextMetrics ==
    \/ \E v \in VehicleCounts :
          /\ CollectMetrics(v)
          /\ UNCHANGED websterVars /\ UNCHANGED detectorVars /\ UNCHANGED geoVars /\ UNCHANGED collectorVars
    \/ CNext({1, 2, 3, 4}, MetricsOutcomes, MetricsCycles)
    \/ \E v \in {3} :
          /\ FinalizeMetrics(10 * v, v)
          /\ UNCHANGED websterVars /\ UNCHANGED detectorVars /\ UNCHANGED geoVars /\ UNCHANGED collectorVars

SpecMetrics == InitMetrics /\ [][NextMetrics]_vars

InitCollector == KInit /\ IdleWebster /\ DInit /\ CInit(<< >>) /\ IdleGeo

SpecCollector == InitCollector /\ [][NextCollector]_vars

InitWebster == WInit /\ DInit /\ CInit(<< >>) /\ IdleGeo /\ IdleCollector

SpecWebster == InitWebster /\ [][WNext]_vars

InitDetector == DInit /\ IdleWebster /\ CInit(<< >>) /\ IdleGeo /\ IdleCollector

SpecDetector == InitDetector /\ [][DNext]_vars

GNext ==
    Construct /\ UNCHANGED websterVars /\ UNCHANGED detectorVars /\ UNCHANGED controllerVars
              /\ UNCHANGED collectorVars

InitGeo == GInit /\ IdleWebster /\ DInit /\ CInit(<< >>) /\ IdleCollector

SpecGeo == InitGeo /\ [][GNext]_vars

\* optimize without a phase configuration, on the known and the unknown junction
LookupInputs ==
    { [junction_id |-> j, live_flows |-> f, has_config |-> FALSE, phase_config |-> << >>] :
        j \in JunctionIds, f \in [Directions -> FlowValues] }

LookupQueues == {[north |-> 17], [north |-> 20, east |-> 28]}

LNext ==
    \/ Optimize /\ UNCHANGED detectorVars /\ UNCHANGED controllerVars /\ UNCHANGED geoVars /\ UNCHANGED collectorVars
    \/ \E q \in LookupQueues :
          /\ Analyze("J001", q, NoInflow, LookupCalls)
          /\ UNCHANGED websterVars /\ UNCHANGED controllerVars /\ UNCHANGED geoVars /\ UNCHANGED collectorVars
    \/ \E q \in LookupQueues :
          /\ AnalyzeUnknown("J999", q, NoInflow, LookupCalls)
          /\ UNCHANGED websterVars /\ UNCHANGED controllerVars /\ UNCHANGED geoVars /\ UNCHANGED collectorVars

InitLookup ==
    /\ wIn \in LookupInputs
    /\ wOut = NoTiming
    /\ DInit /\ CInit(<< >>) /\ IdleGeo /\ IdleCollector

SpecLookup == InitLookup /\ [][LNext]_vars

InitTrend == DInit /\ IdleWebster /\ CInit(<< >>) /\ IdleGeo /\ IdleCollector

SpecTrend == InitTrend /\ [][TNext]_vars

(***************************************************************************)
(* Claims about WebsterOptimizer.optimize                                  *)
(***************************************************************************)

\* C1: every SignalTiming has an integer cycle_length with
\* MIN_CYCLE <= cycle_length <= MAX_CYCLE, for all flows (zero and extreme)
\* and all phase configurations.
Thm_C1 ==
    wOut.kind = "timing" => wOut.cycle_length \in MIN_CYCLE..MAX_CYCLE

\* extreme flows on every approach: the raw cycle is far above MAX_CYCLE
Wit_C1 ==
    /\ wOut.kind = "timing"
    /\ \A d \in Directions : wIn.live_flows[d] = 5000
    /\ Len(wOut.phases) = 2
    /\ wOut.cycle_length = MAX_CYCLE

\* C2: every phase has red_s >= MIN_RED_TIME; when the clamped proportional
\* green leaves less than MIN_RED_TIME of red, green becomes
\* cycle - MIN_RED_TIME - YELLOW_TIME and red is exactly MIN_RED_TIME, even
\* below the phase's min_green_s.
Thm_C2 ==
    wOut.kind = "timing" =>
        \A i \in 1..Len(wOut.phases) :
            LET cfg == UsedConfig(wIn)
                C == wOut.cycle_length
                share == GreenShare(cfg[i],
                             calculate_phase_flow_ratio(wIn.junction_id, cfg[i], wIn.live_flows),
                             wOut.sum_flow_ratios, C - wOut.total_lost_time, Len(cfg))
            IN  /\ wOut.phases[i].red_s >= MIN_RED_TIME
                /\ (C - share - YELLOW_TIME < MIN_RED_TIME =>
                       /\ wOut.phases[i].green_s = C - MIN_RED_TIME - YELLOW_TIME
                       /\ wOut.phases[i].red_s = MIN_RED_TIME)

\* a phase whose green was cut below its own min_green_s to keep the red
Wit_C2 ==
    /\ wOut.kind = "timing"
    /\ \E i \in 1..Len(wOut.phases) :
          /\ wOut.phases[i].red_s = MIN_RED_TIME
          /\ wOut.phases[i].green_s < UsedConfig(wIn)[i].min_green_s
          /\ wOut.phases[i].green_s = wOut.cycle_length - MIN_RED_TIME - YELLOW_TIME

\* C3: is_oversaturated <=> raw Y >= 0.90; raw Y >= 1.0 => the Y used and
\* reported is 0.95; the reported Y is always < 1.0 and a timing plan is
\* produced for every known junction.
Thm_C3 ==
    (wOut.kind # "none" /\ wIn.junction_id \in KnownJunctions) =>
        /\ wOut.kind = "timing"
        /\ wOut.is_oversaturated <=> (10 * RawY(wIn).n >= 9 * RawY(wIn).d)
        /\ (RawY(wIn).n >= RawY(wIn).d =>
               /\ wOut.sum_flow_ratios = [n |-> 19, d |-> 20]
               /\ wOut.cycle_length =
                    CycleLength(wOut.total_lost_time, [n |-> 19, d |-> 20]))
        /\ (RawY(wIn).n < RawY(wIn).d => wOut.sum_flow_ratios = RawY(wIn))
        /\ wOut.sum_flow_ratios.n < wOut.sum_flow_ratios.d

\* a raw Y of exactly 1.0 (0.5 + 0.5) that is reported as 0.95
Wit_C3 ==
    /\ wOut.kind = "timing"
    /\ RawY(wIn) = [n |-> 1, d |-> 1]
    /\ wOut.is_oversaturated
    /\ wOut.sum_flow_ratios = [n |-> 19, d |-> 20]

\* a raw Y of exactly 0.90 is flagged and not capped
Wit_C3_Boundary ==
    /\ wOut.kind = "timing"
    /\ RawY(wIn) = [n |-> 9, d |-> 10]
    /\ wOut.is_oversaturated
    /\ wOut.sum_flow_ratios = [n |-> 9, d |-> 10]

(***************************************************************************)
(* Claims about SpillbackDetector.analyze                                  *)
(***************************************************************************)

Thm_C11 ==
    dOut.kind = "status" =>
        /\ DOMAIN dOut.approaches = DOMAIN dIn.queue_lengths
        /\ \A d \in DOMAIN dOut.approaches :
              StatusValue[dOut.approaches[d].status] <= StatusValue[dOut.overall_status]
        /\ \/ \E d \in DOMAIN dOut.approaches :
                  dOut.approaches[d].status = dOut.overall_status
           \/ (DOMAIN dIn.queue_lengths = {} /\ dOut.overall_status = "OK")
        /\ (DOMAIN dIn.queue_lengths = {} => dOut.overall_status = "OK")

\* the worse approach comes first in the map: north CRITICAL, east WARNING
Wit_C11 ==
    /\ dOut.kind = "status"
    /\ DOMAIN dIn.queue_lengths = {"north", "east"}
    /\ dOut.approaches["north"].status = "CRITICAL"
    /\ dOut.approaches["east"].status = "WARNING"
    /\ dOut.overall_status = "CRITICAL"

\* the texts _generate_recommendation can return, by the word they carry
UrgentText == "URGENT: Extend green, consider blocking upstream"

\* C12: recommended_action depends on the approach statuses only: it carries
\* "URGENT" iff some approach is at SPILLBACK, is "No action needed" iff the
\* overall status is OK, names the CRITICAL approaches when some approach is
\* CRITICAL and none at SPILLBACK, and is the monitoring message when the
\* worst status is WARNING.
Thm_C12 ==
    dOut.kind = "status" =>
        LET spill == {d \in DOMAIN dOut.approaches : dOut.approaches[d].status = "SPILLBACK"}
            crit == {d \in DOMAIN dOut.approaches : dOut.approaches[d].status = "CRITICAL"}
            warn == {d \in DOMAIN dOut.approaches : dOut.approaches[d].status = "WARNING"}
            action == dOut.recommended_action
        IN  /\ (action.text = UrgentText) <=> (spill # {})
            /\ (spill # {} => action.dirs = spill)
            /\ (action.text = "No action needed") <=> (dOut.overall_status = "OK")
            /\ (crit # {} /\ spill = {}) =>
                   (action.text = "Extend green by 10-15s" /\ action.dirs = crit)
            /\ (warn # {} /\ crit = {} /\ spill = {}) =>
                   action = [text |-> "Monitor closely, consider extending green",
                             dirs |-> {}]

\* one approach at SPILLBACK next to a CRITICAL one: the message is the urgent one
Wit_C12 ==
    /\ dOut.kind = "status"
    /\ DOMAIN dOut.approaches = {"north", "east"}
    /\ dOut.approaches["north"].status = "SPILLBACK"
    /\ dOut.approaches["east"].status = "CRITICAL"
    /\ dOut.recommended_action = [text |-> UrgentText, dirs |-> {"north"}]

\* C13: should_block_upstream answers true iff the most recent queue length
\* recorded for the approach is at least 90% of its storage capacity and
\* get_queue_trend is INCREASING; it is false when only one of the two holds
\* and false when no sample was recorded for the approach.
Thm_C13 ==
    qOut.kind = "block" =>
        LET known == qOut.junction_id \in KnownJunctions
            samples == IF known THEN history[<<qOut.junction_id, qOut.direction>>]
                       ELSE << >>
            capacity == get_storage_capacity(qOut.junction_id, qOut.direction)
            full == samples # << >> /\ 10 * samples[Len(samples)][2] >= 9 * capacity
        IN  /\ qOut.block <=> (full /\ qOut.trend = "INCREASING")
            /\ (samples = << >> => ~qOut.block)

\* the queue rose from 10 to 18 of 20: upstream is to be held
Wit_C13 ==
    /\ qOut.kind = "block"
    /\ qOut.junction_id = "J001" /\ qOut.direction = "north"
    /\ Len(history[<<"J001", "north">>]) = 4
    /\ history[<<"J001", "north">>][1][2] = 10
    /\ history[<<"J001", "north">>][4][2] = 18
    /\ qOut.trend = "INCREASING"
    /\ qOut.block

\* the approach is full but its queue is not rising: upstream is not held
Wit_C13_FullOnly ==
    /\ qOut.kind = "block"
    /\ qOut.junction_id = "J001" /\ qOut.direction = "north"
    /\ Len(history[<<"J001", "north">>]) = 4
    /\ history[<<"J001", "north">>][4][2] = 18
    /\ qOut.trend = "STABLE"
    /\ ~qOut.block

\* the queue is rising but the approach is far from full: upstream is not held
Wit_C13_RisingOnly ==
    /\ qOut.kind = "block"
    /\ qOut.junction_id = "J001" /\ qOut.direction = "north"
    /\ qOut.trend = "INCREASING"
    /\ history[<<"J001", "north">>][Len(history[<<"J001", "north">>])][2] = 10
    /\ ~qOut.block

\* C16: optimize and analyze called with a junction id that is not in the
\* geometric database end in a junction-not-found error instead of a result
\* and change no state: the queue history is the same before and after the
\* failed analyze.
Thm_C16 ==
    [][ /\ (wOut' # wOut /\ wIn.junction_id \notin KnownJunctions) =>
              /\ wOut'.kind = "ValueError"
              /\ wOut'.phases = << >>
              /\ UNCHANGED <<wIn, history, dClock, dIn, dOut, qOut, recorded>>
              /\ UNCHANGED geoVars /\ UNCHANGED collectorVars
              /\ UNCHANGED controllerVars
        /\ (wOut' # wOut /\ wIn.junction_id \in KnownJunctions) => wOut'.kind = "timing"
        /\ (dClock' # dClock /\ dIn'.junction_id \notin KnownJunctions) =>
              /\ dOut'.kind = "ValueError"
              /\ dOut'.approaches = << >>
              /\ history' = history
              /\ UNCHANGED websterVars
              /\ UNCHANGED geoVars /\ UNCHANGED collectorVars
              /\ UNCHANGED controllerVars
        /\ (dClock' # dClock /\ dIn'.junction_id \in KnownJunctions) => dOut'.kind = "status"
      ]_vars

\* both calls failed for J999; the sample of the earlier analyze of J001 is
\* still the only one kept
Wit_C16 ==
    /\ wIn.junction_id = "J999"
    /\ wOut.kind = "ValueError"
    /\ dIn.junction_id = "J999"
    /\ dOut.kind = "ValueError"
    /\ dClock = 2
    /\ history[<<"J001", "north">>] = <<<<1, 17>>>>
    /\ history[<<"J001", "east">>] = << >>

(***************************************************************************)
(* Claims about GeometricDatabase                                          *)
(***************************************************************************)

\* C14: for every approach of every junction loaded from a parseable junction
\* configuration (zero lanes included) the derived saturation_flow is > 0, and
\* get_storage_capacity is >= 1 for every junction and direction, known or
\* unknown.
Cex_C14 ==
    geoOut.kind = "db" =>
        /\ \A j \in DOMAIN geoOut.junctions : \A d \in DOMAIN geoOut.junctions[j] :
              geoOut.junctions[j][d].saturation_flow.n > 0
        /\ \A j \in JunctionIds : \A d \in Directions :
              StorageCapacity(geoOut.junctions, j, d) >= 1

\* C15: the construction fails and produces no database when the junction
\* file is missing or is not JSON; a missing or non-JSON context file never
\* aborts it: the database is built with the base saturation flow 1900 and
\* the default thresholds.
Thm_C15 ==
    geoOut.kind # "none" =>
        /\ geoIn.junction_file.state \in {"missing", "invalid"} =>
              /\ geoOut.kind \in {"FileNotFoundError", "ValueError"}
              /\ geoOut.junctions = << >>
        /\ ( /\ geoIn.junction_file.state = "ok"
             /\ geoIn.context_file.state \in {"missing", "invalid"} ) =>
              /\ geoOut.kind = "db"
              /\ DOMAIN geoOut.junctions = DOMAIN geoIn.junction_file.content
              /\ ContextGet(geoOut.context, "base_saturation_flow", 0) = 1900
              /\ warning_threshold(geoOut.context) = 70
              /\ critical_threshold(geoOut.context) = 85
              /\ \A j \in DOMAIN geoOut.junctions : \A d \in DOMAIN geoOut.junctions[j] :
                    LET a == geoOut.junctions[j][d]
                    IN  a.saturation_flow =
                          RatMul(RatMul(RatMul(Rat(1900 * a.lanes, 1), Rat(a.fw, 100)),
                                        a.fHV), Rat(a.fT, 100))

\* no context file: one standard lane with a tight turn gets 1900 * 0.80
Wit_C15 ==
    /\ geoOut.kind = "db"
    /\ geoIn.context_file = MissingFile
    /\ geoIn.junction_file.state = "ok"
    /\ "J001" \in DOMAIN geoOut.junctions
    /\ geoOut.junctions["J001"]["north"].lanes = 1
    /\ geoOut.junctions["J001"]["north"].saturation_flow = [n |-> 1520, d |-> 1]

\* no junction file: no database, whatever the context file is
Wit_C15_NoJunctions ==
    /\ geoOut.kind = "FileNotFoundError"
    /\ geoIn.junction_file = MissingFile
    /\ geoIn.context_file.state = "ok"

\* the factor the documented table gives for a lane width in centimetres
DocumentedWidthFactor(w) ==
    CASE w >= 365 -> 100
      [] w >= 335 /\ w < 365 -> 96
      [] w >= 305 /\ w < 335 -> 91
      [] w >= 275 /\ w < 305 -> 86
      [] w < 275 -> 81

\* C18: _lane_width_factor(w) is 1.00 for w >= 3.65, 0.96 for 3.35 <= w < 3.65,
\* 0.91 for 3.05 <= w < 3.35, 0.86 for 2.75 <= w < 3.05 and 0.81 below 2.75;
\* it never increases as w decreases.
Thm_C18 ==
    geoOut.kind = "db" =>
        \A j \in DOMAIN geoOut.junctions :
            LET as == geoOut.junctions[j]
            IN  /\ \A d \in DOMAIN as : as[d].fw = DocumentedWidthFactor(as[d].width_cm)
                /\ \A d1, d2 \in DOMAIN as :
                      as[d1].width_cm <= as[d2].width_cm => as[d1].fw <= as[d2].fw

\* 3.65 m is a standard lane, 3.64 m is already in the 0.96 class
Wit_C18 ==
    /\ geoOut.kind = "db"
    /\ "J001" \in DOMAIN geoOut.junctions
    /\ geoOut.junctions["J001"]["north"].width_cm = 365
    /\ geoOut.junctions["J001"]["north"].fw = 100
    /\ geoOut.junctions["J001"]["east"].width_cm = 364
    /\ geoOut.junctions["J001"]["east"].fw = 96

(***************************************************************************)
(* Claims about StabilizedAdaptiveController                               *)
(***************************************************************************)

\* a junction is configured
Configured(j) == \E i \in 1..Len(junction_config) : junction_config[i] = j

\* the processing of the junction ended with an error
Failed(o) == o.error \in EarlyErrors \/ SinkFails(o)

\* the phases the loop over the plan got to
Handled(o) ==
    IF o.error \in EarlyErrors THEN {}
    ELSE IF SinkFails(o) THEN 0..o.current_phase
    ELSE 0..(Len(o.greens) - 1)

\* the cycle relating the unprimed and the primed state optimized
OptimizedStep == cycles' = cycles + 1 /\ last'.kind = "optimized"

\* C4: every green time recorded as applied and every green time of a stable
\* snapshot lies in [min_green_s, max_green_s], whatever the optimizer
\* returned and also after rate limiting.
Thm_C4 ==
    \A j \in CtlJunctions :
        /\ \A p \in DOMAIN current_greens[j] :
              current_greens[j][p] \in MIN_GREEN_S..MAX_GREEN_S
        /\ \A p \in DOMAIN stable_timings[j] :
              stable_timings[j][p] \in MIN_GREEN_S..MAX_GREEN_S

\* the optimizer returned 10 and 70, the greens are on their way from 60/15
Wit_C4 ==
    /\ last.kind = "optimized"
    /\ last.outcomes["J001"].error = "none"
    /\ last.outcomes["J001"].greens = <<10, 70>>
    /\ current_greens["J001"] = (0 :> 50 @@ 1 :> 25)
    /\ stable_timings["J001"] = (0 :> 50 @@ 1 :> 25)

\* the phases of junction j that the cycle rate limited
LimitedPhases(j) ==
    { p \in Handled(last'.outcomes[j]) \cap DOMAIN current_greens[j] :
        LET t == IntMax(MIN_GREEN_S, IntMin(MAX_GREEN_S, last'.outcomes[j].greens[p + 1]))
        IN  Abs(t - current_greens[j][p]) > MAX_GREEN_CHANGE_S }

\* C5: a phase with an applied green g changes by at most max_green_change_s
\* in one cycle; when the bounded target is further away than that, the new
\* green is exactly g + max_green_change_s or g - max_green_change_s towards
\* the target and rate_limited_changes counts that phase; otherwise the new
\* green is the target and the counter does not count it.
Thm_C5 ==
    [][ /\ \A j \in CtlJunctions : \A p \in DOMAIN current_greens[j] :
              LET g == current_greens[j][p]
                  g2 == current_greens'[j][p]
              IN  /\ p \in DOMAIN current_greens'[j]
                  /\ Abs(g2 - g) <= MAX_GREEN_CHANGE_S
                  /\ (OptimizedStep /\ p \in Handled(last'.outcomes[j])) =>
                        LET t == IntMax(MIN_GREEN_S,
                                        IntMin(MAX_GREEN_S, last'.outcomes[j].greens[p + 1]))
                        IN  /\ (t - g > MAX_GREEN_CHANGE_S => g2 = g + MAX_GREEN_CHANGE_S)
                            /\ (g - t > MAX_GREEN_CHANGE_S => g2 = g - MAX_GREEN_CHANGE_S)
                            /\ (Abs(t - g) <= MAX_GREEN_CHANGE_S => g2 = t)
        /\ OptimizedStep =>
              metrics'.rate_limited_changes = metrics.rate_limited_changes
                  + Cardinality(LimitedPhases("J001")) + Cardinality(LimitedPhases("J002"))
        /\ ~OptimizedStep =>
              metrics'.rate_limited_changes = metrics.rate_limited_changes
      ]_vars

\* from 60/15 towards 15/60: one limited step of 10 each, both counted
Wit_C5 ==
    /\ last.kind = "optimized"
    /\ last.outcomes["J001"].greens = <<10, 70>>
    /\ current_greens["J001"] = (0 :> 50 @@ 1 :> 25)
    /\ metrics.rate_limited_changes = 2
    /\ cycles = 2

\* C6: when the measured delay exceeds performance_threshold times the previous
\* delay for the stability_window-th cycle in a row, the cycle re-applies the
\* stable snapshot, adds one to reversions and resets the failure counter.
Cex_C6 ==
    [][ ( /\ cycles' = cycles + 1
          /\ performance_history # << >>
          /\ Degraded(last'.delay, performance_history[Len(performance_history)])
          /\ failure_count = STABILITY_WINDOW - 1 )
        => ( /\ metrics'.reversions = metrics.reversions + 1
             /\ failure_count' = 0
             /\ \A j \in CtlJunctions :
                   ( /\ stable_timings[j] # << >>
                     /\ ~Failed(last'.outcomes[j])
                     /\ last'.outcomes[j].current_phase \in DOMAIN stable_timings[j] )
                   => phase_duration'[j] = stable_timings[j][last'.outcomes[j].current_phase] )
      ]_vars

\* C7: at the end of every optimization cycle the consecutive-degradation
\* counter is strictly below stability_window, also when no stable snapshot
\* was ever recorded.
Cex_C7 == failure_count < STABILITY_WINDOW

\* C8: an error in the processing of one junction leaves every other
\* configured junction processed in the same cycle, the cycle completes (the
\* delay is appended to the history) and the error does not leave
\* _run_optimization_cycle.
Thm_C8 ==
    [][ ( /\ cycles' = cycles + 1
          /\ last'.kind \notin {"reverted", "revert_without_snapshot"} )
        => ( /\ last'.kind = "optimized"
             /\ performance_history' = AppendDelay(performance_history, last'.delay)
             /\ metrics'.optimization_count = metrics.optimization_count
                   + Cardinality({j \in CtlJunctions :
                                     Configured(j) /\ ~Failed(last'.outcomes[j])})
             /\ \A j \in CtlJunctions :
                   (Configured(j) /\ ~Failed(last'.outcomes[j])) =>
                       /\ DOMAIN current_greens'[j] = PhaseIdxs
                       /\ phase_duration'[j] = current_greens'[j][last'.outcomes[j].current_phase] )
      ]_vars

\* second cycle: the first junction failed again before its phases were
\* handled, the second one was optimized, both delays are in the history
Wit_C8 ==
    /\ cycles = 2
    /\ last.kind = "optimized"
    /\ last.outcomes["J001"].error = "measure"
    /\ last.outcomes["J002"].error = "none"
    /\ current_greens["J001"] = << >>
    /\ current_greens["J002"] = (0 :> 60 @@ 1 :> 15)
    /\ phase_duration["J002"] = 60
    /\ Len(performance_history) = 2
    /\ metrics.optimization_count = 2

\* C9: when the processing of a junction fails, at whatever point, its applied
\* greens, its stable snapshot, optimization_count and rate_limited_changes
\* are what they were before the cycle.
Cex_C9 ==
    [][ OptimizedStep =>
          \A j \in CtlJunctions :
              (Configured(j) /\ Failed(last'.outcomes[j])) =>
                  /\ current_greens'[j] = current_greens[j]
                  /\ stable_timings'[j] = stable_timings[j]
                  /\ metrics'.optimization_count = metrics.optimization_count
                  /\ metrics'.rate_limited_changes = metrics.rate_limited_changes
      ]_vars

\* C17: when the raw flow measured on every approach is the same in every
\* cycle and there is no error and no reversion, the smoothed flow and the
\* applied green of every phase have a fixed value from the first cycle on
\* and keep it in every later cycle.
Thm_C17 ==
    [][ cycles' = cycles + 1 =>
          /\ last'.kind = "optimized"
          /\ flow_history'["J001"] =
                [a \in DOMAIN last'.outcomes["J001"].raw_flows |->
                    RatInt(last'.outcomes["J001"].raw_flows[a])]
          /\ DOMAIN current_greens'["J001"] = PhaseIdxs
          /\ cycles >= 1 =>
                /\ flow_history' = flow_history
                /\ current_greens' = current_greens
      ]_vars

\* third cycle with 20 PCU from the north and 5 from the east: the smoothed
\* flows are the raw ones and the greens are those of the first cycle
Wit_C17 ==
    /\ cycles = 3
    /\ last.kind = "optimized"
    /\ last.outcomes["J001"].raw_flows = [north |-> 1600, east |-> 400]
    /\ flow_history["J001"] = [north |-> RatInt(1600), east |-> RatInt(400)]
    /\ current_greens["J001"][0] > current_greens["J001"][1]
    /\ metrics.rate_limited_changes = 0

\* C19: in every cycle after the first the failure counter goes up by one
\* when the current delay is above performance_threshold times the delay
\* measured in the cycle just before, and is reset to zero otherwise, also
\* when the cycle just before was a reverting one; in the first cycle it
\* stays at zero. (The cycle that reverts is left out: it ends with the
\* counter reset by the reversion.)
Cex_C19 ==
    [][ cycles' = cycles + 1 =>
          /\ cycles = 0 => failure_count' = 0
          /\ (cycles >= 1 /\ last'.kind # "reverted") =>
                failure_count' = IF Degraded(last'.delay, last.delay)
                                 THEN failure_count + 1 ELSE 0
      ]_vars

\* C20: right after a reversion the applied green recorded for every phase of
\* every reverted junction is the one of the stable snapshot, so that the
\* rate limit of the next cycle is measured from the reverted greens.
Cex_C20 ==
    last.kind = "reverted" =>
        \A j \in CtlJunctions :
            stable_timings[j] # << >> => current_greens[j] = stable_timings[j]

\* C21: the stable snapshot of a junction changes only in a cycle that
\* optimizes and leaves the failure counter at zero after its degradation
\* check, and is then the applied greens of the junction after rate limiting;
\* a cycle that ends with the counter above zero and a cycle that reverts
\* leave every snapshot as it was.
Thm_C21 ==
    [][ cycles' = cycles + 1 =>
          \A j \in CtlJunctions :
              /\ stable_timings'[j] # stable_timings[j] =>
                    /\ last'.kind = "optimized"
                    /\ FailureCountAfterCheck(last'.delay) = 0
                    /\ failure_count' = 0
                    /\ stable_timings'[j] = current_greens'[j]
              /\ ( \/ last'.kind \in {"reverted", "revert_without_snapshot"}
                   \/ FailureCountAfterCheck(last'.delay) > 0 ) =>
                    stable_timings'[j] = stable_timings[j]
      ]_vars

\* fourth cycle, the delay went up three times: the greens had moved on from
\* 60/15 to 40/35 with the counter above zero, the cycle reverts and the
\* snapshot is still the one of the first cycle
Wit_C21 ==
    /\ cycles = 4
    /\ last.kind = "reverted"
    /\ metrics.optimization_count = 3
    /\ stable_timings["J001"] = (0 :> 60 @@ 1 :> 15)
    /\ current_greens["J001"] = (0 :> 40 @@ 1 :> 35)

\* second cycle, the delay went up: the greens moved on from 60/15 towards
\* 15/60 and the snapshot is still the one of the first cycle
Wit_C21_Degraded ==
    /\ cycles = 2
    /\ last.kind = "optimized"
    /\ last.outcomes["J001"].error = "none"
    /\ failure_count = 1
    /\ stable_timings["J001"] = (0 :> 60 @@ 1 :> 15)
    /\ current_greens["J001"] = (0 :> 50 @@ 1 :> 25)

\* second cycle, the delay did not go up: the snapshot follows the greens
Wit_C21_Saved ==
    /\ cycles = 2
    /\ last.kind = "optimized"
    /\ failure_count = 0
    /\ stable_timings["J001"] = (0 :> 50 @@ 1 :> 25)
    /\ current_greens["J001"] = (0 :> 50 @@ 1 :> 25)

\* C22: in every control cycle the measurements of each configured junction
\* are collected and folded into its smoothed-flow history before the revert
\* decision, so the history advances by the measurement of the cycle in every
\* cycle, reverting or not.
Cex_C22 ==
    [][ cycles' = cycles + 1 =>
          \A j \in CtlJunctions :
              (Configured(j) /\ DOMAIN last'.outcomes[j].raw_flows # {}) =>
                  flow_history'[j] = SmoothFlows(flow_history[j], last'.outcomes[j].raw_flows)
      ]_vars

\* C23: the degradation counter, the delay history and the stable snapshot
\* belong to one junction, so a cycle that reverts changes the greens applied
\* to at most one junction and leaves those of every other junction as they
\* were.
Cex_C23 ==
    [][ (cycles' = cycles + 1 /\ last'.kind = "reverted") =>
          Cardinality({j \in CtlJunctions : phase_duration'[j] # phase_duration[j]}) <= 1
      ]_vars

(***************************************************************************)
(* Claims about the queue history of SpillbackDetector                     *)
(***************************************************************************)

\* C24: after any sequence of analyze calls the history of every approach
\* holds at most 12 samples, in arrival order, and is exactly the most recent
\* min(n, 12) of the n samples recorded for it; an analyze appends one sample
\* for every direction of its queue map and for no other approach.
Thm_C24 ==
    /\ \A k \in HistoryKeys :
          LET n == Len(recorded[k])
              kept == IntMin(n, HISTORY_MAX_LEN)
          IN  /\ Len(history[k]) = kept
              /\ Len(history[k]) <= 12
              /\ history[k] = SubSeq(recorded[k], n - kept + 1, n)
              /\ \A i \in 1..(Len(history[k]) - 1) : history[k][i][1] < history[k][i + 1][1]
    /\ dOut.kind = "status" =>
          \A k \in HistoryKeys :
              IF k[1] = dIn.junction_id /\ k[2] \in DOMAIN dIn.queue_lengths
              THEN /\ history[k] # << >>
                   /\ history[k][Len(history[k])] = <<dClock, dIn.queue_lengths[k[2]]>>
              ELSE history[k] = << >> \/ history[k][Len(history[k])][1] < dClock

\* the thirteenth sample of north has pushed the first one out, east has been
\* recorded less often and still holds all of its samples
Wit_C24 ==
    /\ dClock = 13
    /\ Len(recorded[<<"J001", "north">>]) = 13
    /\ Len(history[<<"J001", "north">>]) = 12
    /\ history[<<"J001", "north">>][1][1] = 2
    /\ history[<<"J001", "north">>][12] = <<13, 5>>
    /\ Len(history[<<"J001", "east">>]) = 4
    /\ history[<<"J001", "east">>] = recorded[<<"J001", "east">>]

\* C25: get_queue_trend answers INCREASING exactly when the mean of the 3
\* most recent retained queue lengths is more than 2 above the mean of the 3
\* earliest retained ones, DECREASING exactly when it is more than 2 below,
\* and STABLE otherwise, in particular with fewer than 3 samples.
Cex_C25 ==
    qOut.kind = "block" =>
        LET samples == SamplesOf(history, qOut.junction_id, qOut.direction)
            n == Len(samples)
            recent == samples[n - 2][2] + samples[n - 1][2] + samples[n][2]
            older == samples[1][2] + samples[2][2] + samples[3][2]
        IN  IF n < 3 THEN qOut.trend = "STABLE"
            ELSE /\ qOut.trend = "INCREASING" <=> recent - older > 6
                 /\ qOut.trend = "DECREASING" <=> older - recent > 6
                 /\ qOut.trend = "STABLE" <=> Abs(recent - older) <= 6

\* C26: analyze reports a time to spillback for an approach exactly when an
\* inflow rate is supplied for its direction, the rate is above zero and the
\* approach is not at SPILLBACK; otherwise the estimate is left out and the
\* call still returns a status; a reported estimate is
\* (capacity - queue) / inflow * 3600 and is above zero.
Thm_C26 ==
    dClock > 0 =>
        /\ dOut.kind = "status"
        /\ DOMAIN dOut.approaches = DOMAIN dIn.queue_lengths
        /\ \A d \in DOMAIN dOut.approaches :
              LET a == dOut.approaches[d]
                  rates == dIn.inflow_rates.rates
                  supplied == dIn.inflow_rates.given /\ d \in DOMAIN rates
              IN  /\ a.has_tts <=>
                        (supplied /\ rates[d] > 0 /\ a.status # "SPILLBACK")
                  /\ a.has_tts =>
                        /\ a.time_to_spillback_s.n * rates[d] =
                              (a.storage_capacity - dIn.queue_lengths[d]) * 3600
                                  * a.time_to_spillback_s.d
                        /\ a.time_to_spillback_s.n > 0
                        /\ a.time_to_spillback_s.d > 0

\* 600 PCU/hr into north with 3 places left: 18 s; north at SPILLBACK or east
\* with a rate of zero: no estimate
Wit_C26 ==
    /\ dOut.kind = "status"
    /\ dIn.inflow_rates = [given |-> TRUE, rates |-> [north |-> 600, east |-> 0]]
    /\ dIn.queue_lengths = [north |-> 17, east |-> 34]
    /\ dOut.approaches["north"].has_tts
    /\ dOut.approaches["north"].time_to_spillback_s = RatInt(18)
    /\ ~dOut.approaches["east"].has_tts

\* north is full: no estimate although 600 PCU/hr flow in
Wit_C26_Spillback ==
    /\ dOut.kind = "status"
    /\ dIn.inflow_rates = [given |-> TRUE, rates |-> [north |-> 600, east |-> 0]]
    /\ dIn.queue_lengths = [north |-> 20]
    /\ dOut.approaches["north"].status = "SPILLBACK"
    /\ ~dOut.approaches["north"].has_tts

(***************************************************************************)
(* Claims about the metrics of StabilizedAdaptiveController                *)
(***************************************************************************)

\* the counters the controller accumulates
CumulativeMetrics ==
    {"optimization_count", "rate_limited_changes", "reversions",
     "spillback_events", "total_vehicles"}

\* C27: optimization_count, rate_limited_changes, reversions,
\* spillback_events and total_vehicles start at zero when the controller is
\* constructed and never go down afterwards, whatever simulation steps,
\* optimization cycles, failing cycles and reversions follow: nothing resets
\* them while the controller runs.
Thm_C27 ==
    /\ \A f \in CumulativeMetrics : metrics[f] = 0
    /\ [][ \A f \in CumulativeMetrics : metrics'[f] >= metrics[f] ]_vars

\* after three optimizations (one of them rate limited and failing at the
\* sink), a reversion and steps with 5 and then 2 vehicles every counter is
\* above zero and total_vehicles is still 5
Wit_C27 ==
    /\ cycles = 4
    /\ last.kind = "reverted"
    /\ metrics.reversions = 1
    /\ metrics.optimization_count >= 1
    /\ metrics.rate_limited_changes >= 1
    /\ metrics.spillback_events >= 1
    /\ metrics.total_vehicles = 5
    /\ metrics.total_waiting_time = 30

(***************************************************************************)
(* Claims about the green times of WebsterOptimizer.optimize               *)
(***************************************************************************)

\* the sum of green_s over the first i phases of a timing
RECURSIVE GreenSum(_, _)
GreenSum(phases, i) == IF i = 0 THEN 0 ELSE GreenSum(phases, i - 1) + phases[i].green_s

\* C28: in every SignalTiming optimize returns the greens of all phases add
\* up to at most the available green cycle_length - total_lost_time, for
\* every flow map and every phase configuration.
Cex_C28 ==
    wOut.kind = "timing" =>
        GreenSum(wOut.phases, Len(wOut.phases)) <= wOut.cycle_length - wOut.total_lost_time

\* C29: of two phases of one optimize call that have the same min_green_s
\* and max_green_s, the one with the larger critical flow ratio gets at least
\* as much green as the other, for every flow map.
Thm_C29 ==
    wOut.kind = "timing" =>
        LET cfg == UsedConfig(wIn)
            y == [i \in 1..Len(cfg) |->
                    calculate_phase_flow_ratio(wIn.junction_id, cfg[i], wIn.live_flows)]
        IN  \A i, j \in 1..Len(cfg) :
                ( /\ cfg[i].min_green_s = cfg[j].min_green_s
                  /\ cfg[i].max_green_s = cfg[j].max_green_s
                  /\ RatLt(y[j], y[i]) )
                => wOut.phases[i].green_s >= wOut.phases[j].green_s

\* north carries 900 of 1800 PCU/hr, east 900 of 3600: the default phases
\* have the same bounds and get 40 s and 20 s
Wit_C29 ==
    /\ wOut.kind = "timing"
    /\ ~wIn.has_config
    /\ wIn.live_flows = [north |-> 900, east |-> 900, west |-> 0]
    /\ wOut.phases[1].flow_ratio = 500
    /\ wOut.phases[2].flow_ratio = 250
    /\ wOut.phases[1].green_s = 40
    /\ wOut.phases[2].green_s = 20

(***************************************************************************)
(* Claims about DataCollector                                              *)
(***************************************************************************)

\* the records that have been put into the batch queue so far
Batched == (1..produced) \ UNION { Range(records[t]) : t \in {c \in Collectors : pc[c] = "add"} }

\* C30: under every interleaving of collect_vision_data(batch=True) calls,
\* flushes of the background worker, force_flush and
\* stop_background_collection no batched record is lost: every record put
\* into the queue is in the queue or committed; a record leaves the queue only
\* in the flush of a thread whose store_batch had committed it; a store_batch
\* that raises leaves the queue as it was, records and order, for the next
\* flush.
Thm_C30 ==
    [][ /\ Batched' \subseteq Range(batch_queue') \cup Range(db')
        /\ \A r \in Range(batch_queue) \ Range(batch_queue') :
              /\ r \in Range(db)
              /\ \E t \in Threads : pc[t] = "clear" /\ lock = t
        /\ (failures' = failures + 1) => batch_queue' = batch_queue
        /\ \/ batch_queue' = batch_queue
           \/ batch_queue' = << >>
           \/ \E r \in 1..MaxRecords : r \notin Range(batch_queue) /\ batch_queue' = Append(batch_queue, r)
      ]_vars

\* a store_batch has raised, three records were queued, the collection was
\* started and stopped again, the worker has ended and all three records
\* are committed
Wit_C30 ==
    /\ failures = 1
    /\ produced = 3
    /\ Len(db) = 3
    /\ batch_queue = << >>
    /\ ~running
    /\ pc["worker"] = "dead"
    /\ pc["main"] = "idle"
    /\ lock = "free"

====
